---- MODULE Spec2Model ----
(***************************************************************************)
(* Model of the two stream readers of libARStream:                         *)
(*   Engine A  ARVIDEO_Reader.c    (acknowledged fragmented stream)        *)
(*   Engine B  ARSTREAM_Reader2.c  (RTP-like H.264 depacketizer)           *)
(* One behaviour follows one reader object; `engine` says which of the two *)
(* types it is.  The threads of a reader are its two workers and the       *)
(* caller (stop, delete).  A critical section that makes no call out of    *)
(* the reader is one step; the one that upcalls the consumer is split.     *)
(***************************************************************************)
EXTENDS Integers, Sequences, FiniteSets, TLC

(***************************************************************************)
(* Bounds of the model                                                     *)
(***************************************************************************)
\* payload bytes of a full fragment (ARVIDEO_NETWORK_HEADERS_FRAGMENT_SIZE, scaled down)
FRAGMENT_SIZE == 2
\* fragments per frame of the sender of the model
MaxFrags == 2

(***************************************************************************)
(* Program constants                                                       *)
(***************************************************************************)
UINT16_MAX == 65535
\* sizeof (ARVIDEO_NetworkHeaders_DataHeader_t)
DataHeaderSize == 4

NULL == "NULL"

\* frame numbers the sender uses in the model: 0, 1 and the last one before the wrap
FrameNums == {0, 1, UINT16_MAX}
\* a 32-bit value of ackPacket.numFrame that no 16-bit frame number equals
NoFrame == UINT16_MAX + 1
FragNums == 0 .. (MaxFrags - 1)
\* capacities a consumer callback answers with (0 refuses)
CapChoices == {0, FRAGMENT_SIZE, MaxFrags * FRAGMENT_SIZE}
\* what a callback may return: NULL, the buffer it was called with, or another
\* buffer of the consumer; and the capacity it stores (NULL has capacity 0)
Answers == {a \in [buf : {NULL, "same", "other"}, cap : CapChoices] : a.buf = NULL => a.cap = 0}

\* Engine A datagrams: the fragments of frames of MaxFrags fragments (all full but
\* the last, which is short or full), and datagrams one byte shorter than the header
Datagrams ==
    {d \in [frameNumber : FrameNums, fragmentNumber : FragNums,
            fragmentsPerFrame : {MaxFrags},
            recvSize : {DataHeaderSize - 1, DataHeaderSize + 1, DataHeaderSize + FRAGMENT_SIZE}] :
        (d.recvSize = DataHeaderSize + 1) => (d.fragmentNumber = MaxFrags - 1)}
NoDatagram == [frameNumber |-> 0, fragmentNumber |-> 0, fragmentsPerFrame |-> 0, recvSize |-> 0]

VARIABLES
    engine,                 \* "A" or "B": the type of the reader
    feed,                   \* the datagrams the network may deliver to this reader
    grants,                 \* the answers the consumer's callback may give
    readerHandle,           \* the caller's handle: "reader", or NULL once deleted (and freed)
    threadsShouldStop,
    cPc, canDelete, retVal, \* the caller: position, Delete's local, Delete's last return value
    memErr,                 \* memory errors that have happened
    upcalls,                \* the upcalls made by the latest step of the data / receive worker
    acquired,               \* the mutex acquisitions made so far: who, which mutex, holding what
    ticks,                  \* the advances of the monotonic clock between two received packets
    monitoring,             \* what the latest call of GetMonitoring returned and wrote
    lent,                   \* the buffers of the consumer that are on loan to the reader
    \* ---- Engine A
    dataThreadStarted, ackThreadStarted,
    ackMutex,               \* owner of ackMutex: "free" or "data"
    ackPacket,              \* [numFrame, bits]: bits is the set of fragment numbers flagged
    sendPacket,             \* the ack worker's local copy
    currentFrameBuffer, currentFrameBufferSize, currentFrameSize,
    content,                \* the fragment numbers i whose slot at i*FRAGMENT_SIZE holds the
                            \* payload of fragment i of frame ackPacket.numFrame
    aPc, kPc,               \* data worker and ack worker positions
    header,                 \* the datagram in recvData / recvSize
    previousFNum, skipCurrentFrame,
    completedFrames,        \* the frame numbers FRAME_COMPLETE has been upcalled for
    received,               \* the fragment numbers of the datagrams read since
                            \* ackPacket.numFrame was last changed
    \* ---- Engine B
    recvThreadStarted, sendThreadStarted, sendSocket, recvSocket,
    insertStartCodes,
    currentNaluBuffer, currentNaluBufferSize, currentNaluSize,
    naluContent,            \* what bytes [0, currentNaluSize) of the buffer hold, in pieces
    firstTimestamp,
    monitoringCount, monitoringIndex, monitoringPoint,
    bPc, sPc,               \* receive worker and send worker positions
    shouldStop, fuPending, currentAuSize, startSeqNum, previousSeqNum,
    gapsInSeqNum, previousTimestamp

envVars == <<engine, feed, grants, ticks>>
callerVars == <<readerHandle, threadsShouldStop, cPc, canDelete, retVal>>
ackVars  == <<ackMutex, ackPacket, sendPacket>>
bufVars  == <<currentFrameBuffer, currentFrameBufferSize, currentFrameSize, content>>
dataLocals == <<header, previousFNum, skipCurrentFrame>>
dataVars == <<dataThreadStarted, bufVars, aPc, dataLocals, completedFrames, received>>
varsA == <<dataVars, ackThreadStarted, ackVars, kPc>>
sockets == <<sendSocket, recvSocket>>
naluVars == <<currentNaluBuffer, currentNaluBufferSize, currentNaluSize, naluContent>>
monitoringVars == <<monitoringCount, monitoringIndex, monitoringPoint>>
recvLocals == <<shouldStop, fuPending, currentAuSize, startSeqNum, previousSeqNum,
                gapsInSeqNum, previousTimestamp>>
varsB == <<recvThreadStarted, sendThreadStarted, sockets, insertStartCodes, naluVars,
           firstTimestamp, monitoringVars, bPc, sPc, recvLocals>>
vars == <<envVars, callerVars, memErr, upcalls, acquired, monitoring, lent, varsA, varsB>>

freed == readerHandle = NULL

\* ARSAL_Mutex_Lock (mutex) called by thread while it holds the mutexes of holding
Acquire(thread, mutex, holding) == [thread |-> thread, mutex |-> mutex, holding |-> holding]
\* the step makes the acquisitions qs (each is released before the step ends, but
\* for ackMutex kept over FRAME_COMPLETE)
Locks(qs) == acquired' = acquired \cup qs

\* no call of GetMonitoring has returned
NoMonitoring ==
    [ret |-> "none", timeIntervalUs |-> 0, written |-> {}, realTimeIntervalUs |-> 0,
     receptionTimeJitter |-> 0, bytesReceived |-> 0, meanPacketSize |-> 0,
     packetSizeStdDev |-> 0, packetsReceived |-> 0, packetsMissed |-> 0, held |-> {}]

(***************************************************************************)
(* ARVIDEO_NetworkHeaders helpers (their code is not part of the sources)  *)
(***************************************************************************)
\* a reset that keeps the flags (what ARVIDEO_NetworkHeaders_AckPacketReset must not be)
AckPacketKept(p) == p
AckPacketReset(p) == [p EXCEPT !.bits = {}]
AckPacketSetFlag(p, i) == [p EXCEPT !.bits = @ \cup {i}]
AckPacketAllFlagsSet(p, n) == \A i \in 0 .. (n - 1) : i \in p.bits

(***************************************************************************)
(* ARVIDEO_Reader_New: the state of a reader just constructed.             *)
(* malloc leaves ackPacket uninitialised: any frame number, any bitmap.    *)
(***************************************************************************)
InitA ==
    /\ dataThreadStarted = 0
    /\ ackThreadStarted = 0
    /\ ackMutex = "free"
    /\ ackPacket \in [numFrame : FrameNums \cup {NoFrame}, bits : SUBSET FragNums]
    /\ sendPacket = [numFrame |-> 0, bits |-> {}]
    /\ currentFrameBuffer = "buffer"
    /\ currentFrameBufferSize \in CapChoices \ {0}
    /\ currentFrameSize = 0
    /\ content = {}
    /\ aPc = "idle"
    /\ kPc = "idle"
    /\ header = NoDatagram
    /\ previousFNum = UINT16_MAX
    /\ skipCurrentFrame = 0
    /\ completedFrames = {}
    /\ received = {}

InitCaller ==
    /\ readerHandle = "reader"
    /\ threadsShouldStop = 0
    /\ cPc = "ready"
    /\ canDelete = 0
    /\ retVal = "none"
    /\ memErr = {}
    /\ upcalls = << >>
    /\ acquired = {}
    /\ monitoring = NoMonitoring
    /\ lent = {"buffer"}

(***************************************************************************)
(* The caller, Engine A                                                    *)
(***************************************************************************)
\* ARVIDEO_Reader_StopReader
StopReaderA ==
    /\ engine = "A" /\ cPc = "ready"
    /\ threadsShouldStop' = IF freed THEN threadsShouldStop ELSE 1
    /\ Locks(IF freed THEN {} ELSE {Acquire("caller", "threadsStatusMutex", {})})
    /\ UNCHANGED <<envVars, monitoring, lent, readerHandle, cPc, canDelete, retVal, memErr, upcalls, varsA, varsB>>

\* a check that lets one started flag pass (what lines 215-216 must not be)
CanDeleteEither == dataThreadStarted = 0 \/ ackThreadStarted = 0

\* lines 215-216: both started flags are clear
CanDeleteA == dataThreadStarted = 0 /\ ackThreadStarted = 0

\* ARVIDEO_Reader_Delete, up to the unlock of threadsStatusMutex
DeleteCheckA ==
    /\ engine = "A" /\ cPc = "ready"
    /\ IF freed
         THEN /\ retVal' = "-1"
              /\ UNCHANGED <<cPc, canDelete>>
         ELSE /\ canDelete' = IF CanDeleteA THEN 1 ELSE 0
              /\ cPc' = "deleting"
              /\ retVal' = "none"
    /\ Locks(IF freed THEN {} ELSE {Acquire("caller", "threadsStatusMutex", {})})
    /\ UNCHANGED <<envVars, monitoring, lent, readerHandle, threadsShouldStop, memErr, upcalls, varsA, varsB>>

\* ARVIDEO_Reader_Delete, from the unlock to the return
DeleteFinishA ==
    /\ engine = "A" /\ cPc = "deleting"
    /\ readerHandle' = IF canDelete = 1 THEN NULL ELSE readerHandle
    /\ retVal' = IF canDelete = 1 THEN "1" ELSE "0"
    /\ cPc' = "ready"
    /\ canDelete' = 0
    /\ UNCHANGED <<envVars, acquired, monitoring, lent, threadsShouldStop, memErr, upcalls, varsA, varsB>>

(***************************************************************************)
(* C arithmetic and the consumer's callback                                *)
(***************************************************************************)
\* (a > b) for an int a and a uint32_t b below 2^31: a is converted to unsigned
UGt(a, b) == IF a < 0 THEN TRUE ELSE a > b

\* the consumer has two buffers: the one it gives when it does not give cur
Other(cur) == IF cur = "buffer" THEN "buffer2" ELSE "buffer"
\* the pointer the callback returns when it is called with buffer cur and answers a
Returned(cur, a) == IF a.buf = NULL THEN NULL
                    ELSE IF a.buf = "same" THEN cur
                    ELSE Other(cur)
\* a reader that keeps the buffer it has whatever the callback returns (what lines
\* 301 and 326 of ARVIDEO_Reader.c and 634, 810 and 863 of ARSTREAM_Reader2.c must
\* not be)
AdoptedNever(cur, a) == cur
\* the buffer a reader holds after it adopts answer a, given the one it held: it
\* stores the pointer returned
Adopted(cur, a) == Returned(cur, a)
\* the buffers on loan once the consumer has returned buffer b from an upcall
Lend(on, b) == IF b = NULL THEN on ELSE on \cup {b}
\* the buffers on loan once an upcall has given old back to the consumer, whose
\* answer was the buffer kept (old stays on loan when the consumer answered with it)
Release(on, old, kept) == IF old = kept THEN on ELSE on \ {old}
\* the memory error of an access to buffer b while the buffers of on are on loan
ReleaseErr(b, on) == IF b # NULL /\ b \notin on THEN {"useAfterRelease"} ELSE {}
\* the adopted buffer is not the one the reader held
Replaced(cur, a) == a.buf = "other" \/ (a.buf = NULL /\ cur # NULL)
\* answers the consumer can give when called with buffer cur
ValidAnswer(cur, a) == (a.buf = "same" /\ cur = NULL) => a.cap = 0
AnswersFor(cur) == {a \in grants : ValidAnswer(cur, a)}

\* the mutexes of the reader the data worker of Engine A holds
DataHeld == IF ackMutex = "data" THEN {"ackMutex"} ELSE {}

\* an upcall of the consumer's callback: its arguments, the mutexes the worker
\* holds while it makes it and the answer; for FRAME_COMPLETE also the frame it
\* is about, the frame completed before, and what the buffer holds
Upcall(cause, buf, size, missed, answer) ==
    [cause |-> cause, buf |-> buf, size |-> size, missed |-> missed,
     held |-> DataHeld, answer |-> answer,
     frameNumber |-> header.frameNumber, previousFNum |-> previousFNum,
     content |-> content, again |-> header.frameNumber \in completedFrames]

NoAnswer == [buf |-> NULL, cap |-> 0]

(***************************************************************************)
(* Engine A, the data worker: ARVIDEO_Reader_RunDataThread                 *)
(***************************************************************************)
\* the application starts the thread on the reader it holds
SpawnData ==
    /\ engine = "A" /\ ~freed /\ aPc = "idle"
    /\ aPc' = "entry"
    /\ UNCHANGED <<envVars, acquired, monitoring, lent, callerVars, memErr, upcalls, dataThreadStarted, bufVars,
                   dataLocals, completedFrames, received, ackThreadStarted, ackVars, kPc, varsB>>

\* the thread runs on a reader that Delete has freed
DataUseAfterFree ==
    /\ engine = "A" /\ freed /\ aPc \notin {"idle", "done", "crashed"}
    /\ aPc' = "crashed"
    /\ memErr' = memErr \cup {"useAfterFree"}
    /\ UNCHANGED <<envVars, acquired, monitoring, lent, callerVars, upcalls, dataThreadStarted, bufVars,
                   dataLocals, completedFrames, received, ackThreadStarted, ackVars, kPc, varsB>>

\* lines 245-261: malloc of recvData, then dataThreadStarted = 1
DataStart ==
    /\ engine = "A" /\ ~freed /\ aPc = "entry"
    /\ \/ /\ aPc' = "loop"
          /\ dataThreadStarted' = 1
       \/ /\ aPc' = "done"          \* malloc failed
          /\ UNCHANGED dataThreadStarted
    /\ UNCHANGED <<envVars, acquired, monitoring, lent, callerVars, memErr, upcalls, bufVars,
                   dataLocals, completedFrames, received, ackThreadStarted, ackVars, kPc, varsB>>

\* lines 263-282: the loop test, the read (an error or a timeout reads nothing and
\* changes nothing) and the first critical section on ackMutex
DataRead ==
    /\ engine = "A" /\ ~freed /\ aPc = "loop"
    /\ upcalls' = << >>
    /\ IF threadsShouldStop = 0
         THEN \E d \in feed :
                 /\ ackMutex = "free"
                 /\ header' = d
                 /\ aPc' = "sizeLoop"
                 /\ IF d.frameNumber # ackPacket.numFrame
                      THEN /\ skipCurrentFrame' = 0
                           /\ currentFrameSize' = 0
                           /\ content' = {}
                           /\ ackPacket' = AckPacketSetFlag(
                                  AckPacketReset([ackPacket EXCEPT !.numFrame = d.frameNumber]),
                                  d.fragmentNumber)
                           /\ received' = {d.fragmentNumber}
                      ELSE /\ ackPacket' = AckPacketSetFlag(ackPacket, d.fragmentNumber)
                           /\ received' = received \cup {d.fragmentNumber}
                           /\ UNCHANGED <<skipCurrentFrame, currentFrameSize, content>>
         ELSE /\ aPc' = "cancel"
              /\ UNCHANGED <<header, skipCurrentFrame, currentFrameSize, content, ackPacket,
                             received>>
    /\ Locks(IF threadsShouldStop = 0 THEN {Acquire("data", "ackMutex", DataHeld)} ELSE {})
    /\ UNCHANGED <<envVars, monitoring, lent, callerVars, memErr, dataThreadStarted, currentFrameBuffer,
                   currentFrameBufferSize, previousFNum, completedFrames,
                   ackThreadStarted, ackMutex, sendPacket, kPc, varsB>>

\* lines 284-286
cpIndex == FRAGMENT_SIZE * header.fragmentNumber
cpSize == header.recvSize - DataHeaderSize
endIndex == cpIndex + cpSize

\* line 287: the condition of the while loop
BufferTooSmall == UGt(endIndex, currentFrameBufferSize) \/ skipCurrentFrame = 1

\* the slots within bytes [0, n) of the current buffer
CopiedPrefix(n) == {i \in content : i * FRAGMENT_SIZE < n}

\* memory errors of memcpy (nextFrameBuffer, currentFrameBuffer, currentFrameSize), line 294
PrefixCopyErr(next) ==
    IF currentFrameSize = 0 THEN {}
    ELSE (IF currentFrameBuffer = NULL \/ next = NULL THEN {"nullDeref"} ELSE {})
         \cup (IF currentFrameSize > currentFrameBufferSize THEN {"readPastCapacity"} ELSE {})
         \cup ReleaseErr(currentFrameBuffer, lent) \cup ReleaseErr(next, Lend(lent, next))

\* lines 287-303: one turn of the while loop
DataTooSmall ==
    /\ engine = "A" /\ ~freed /\ aPc = "sizeLoop"
    /\ BufferTooSmall
    /\ \E a \in AnswersFor(currentFrameBuffer) :
          LET next == Returned(currentFrameBuffer, a)
              fits == a.cap >= currentFrameSize
              err == IF fits THEN PrefixCopyErr(next) ELSE {}
          IN  /\ memErr' = memErr \cup err
              /\ IF "nullDeref" \in err
                   THEN /\ aPc' = "crashed"
                        /\ upcalls' = << Upcall("FRAME_TOO_SMALL", currentFrameBuffer, currentFrameSize, 0, a) >>
                        /\ lent' = Lend(lent, next)
                        /\ UNCHANGED <<skipCurrentFrame, bufVars>>
                   ELSE /\ aPc' = "sizeLoop"
                        /\ lent' = Release(Lend(lent, next), currentFrameBuffer, next)
                        /\ upcalls' = << Upcall("FRAME_TOO_SMALL", currentFrameBuffer, currentFrameSize, 0, a),
                                         Upcall("COPY_COMPLETE", currentFrameBuffer, currentFrameSize, 0, NoAnswer) >>
                        /\ skipCurrentFrame' = IF fits THEN skipCurrentFrame ELSE 1
                        /\ content' = IF ~Replaced(currentFrameBuffer, a) THEN content
                                      ELSE IF fits THEN CopiedPrefix(currentFrameSize)
                                      ELSE {}
                        /\ currentFrameBuffer' = Adopted(currentFrameBuffer, a)
                        /\ currentFrameBufferSize' = a.cap
                        /\ UNCHANGED currentFrameSize
    /\ UNCHANGED <<envVars, acquired, monitoring, callerVars, dataThreadStarted, header, previousFNum,
                   completedFrames, received, ackThreadStarted, ackVars, kPc, varsB>>

\* memory errors of the memcpy of the payload, line 307: its length is
\* recvSize - sizeof (header) as a size_t, so a datagram shorter than the header
\* gives a length near SIZE_MAX
PayloadCopyErr ==
    (IF cpSize < 0 \/ cpIndex + cpSize > currentFrameBufferSize
        THEN {"writePastCapacity"} ELSE {})
    \cup (IF cpSize # 0 /\ currentFrameBuffer = NULL THEN {"nullDeref"} ELSE {})
    \cup (IF cpSize # 0 THEN ReleaseErr(currentFrameBuffer, lent) ELSE {})

\* lines 314-316: every fragment is flagged and the frame is not the one completed last
FrameIsComplete ==
    /\ AckPacketAllFlagsSet(ackPacket, header.fragmentsPerFrame)
    /\ header.frameNumber # previousFNum

\* the unlock of line 329 moved before the upcall (what lines 313-329 must not be
\* for FRAME_COMPLETE to be made under ackMutex)
UnlockedForComplete == "free"

\* lines 313-329: the data worker takes ackMutex and keeps it over the upcall
LockedForComplete == "data"

\* lines 305-316 and 329: the loop is left, the payload is copied, then the second
\* critical section on ackMutex, which is kept for the FRAME_COMPLETE upcall
DataCopy ==
    /\ engine = "A" /\ ~freed /\ aPc = "sizeLoop"
    /\ ~BufferTooSmall
    /\ upcalls' = << >>
    /\ IF skipCurrentFrame = 0
         THEN /\ memErr' = memErr \cup PayloadCopyErr
              /\ IF PayloadCopyErr # {}
                   THEN /\ aPc' = "crashed"
                        /\ UNCHANGED <<content, currentFrameSize, ackMutex, header>>
                   ELSE /\ ackMutex = "free"
                        /\ content' = content \cup {header.fragmentNumber}
                        /\ currentFrameSize' = IF UGt(endIndex, currentFrameSize)
                                                 THEN endIndex ELSE currentFrameSize
                        /\ IF FrameIsComplete
                             THEN /\ ackMutex' = LockedForComplete
                                  /\ aPc' = "complete"
                                  /\ UNCHANGED header
                             ELSE /\ aPc' = "loop"
                                  /\ header' = NoDatagram
                                  /\ UNCHANGED ackMutex
         ELSE /\ aPc' = "loop"
              /\ header' = NoDatagram
              /\ UNCHANGED <<memErr, content, currentFrameSize, ackMutex>>
    /\ Locks(IF skipCurrentFrame = 0 /\ PayloadCopyErr = {} THEN {Acquire("data", "ackMutex", DataHeld)} ELSE {})
    /\ UNCHANGED <<envVars, monitoring, lent, callerVars, dataThreadStarted, currentFrameBuffer,
                   currentFrameBufferSize, previousFNum, skipCurrentFrame, completedFrames,
                   received, ackThreadStarted, ackPacket, sendPacket, kPc, varsB>>

\* lines 318-324: int nbMissedFrame, computed on int operands
NbMissedFrame(frameNumber, prev) ==
    IF frameNumber # prev + 1 THEN frameNumber - prev - 1 ELSE 0

\* lines 318-329: the FRAME_COMPLETE upcall, made inside the critical section
DataComplete ==
    /\ engine = "A" /\ ~freed /\ aPc = "complete"
    /\ \E a \in AnswersFor(currentFrameBuffer) :
          /\ upcalls' = << Upcall("FRAME_COMPLETE", currentFrameBuffer, currentFrameSize,
                                  NbMissedFrame(header.frameNumber, previousFNum), a) >>
          /\ completedFrames' = completedFrames \cup {header.frameNumber}
          /\ previousFNum' = header.frameNumber
          /\ currentFrameBuffer' = Adopted(currentFrameBuffer, a)
          /\ currentFrameBufferSize' = a.cap
          /\ content' = IF Replaced(currentFrameBuffer, a) THEN {} ELSE content
          /\ lent' = Lend(Release(lent, currentFrameBuffer, Returned(currentFrameBuffer, a)),
                          Returned(currentFrameBuffer, a))
    /\ ackMutex' = "free"
    /\ aPc' = "loop"
    /\ header' = NoDatagram
    /\ UNCHANGED <<envVars, acquired, monitoring, callerVars, memErr, dataThreadStarted, currentFrameSize,
                   skipCurrentFrame, received, ackThreadStarted, ackPacket, sendPacket, kPc, varsB>>

\* lines 334-336: the loop is left, the CANCEL upcall
DataCancel ==
    /\ engine = "A" /\ ~freed /\ aPc = "cancel"
    /\ upcalls' = << Upcall("CANCEL", currentFrameBuffer, currentFrameSize, 0, NoAnswer) >>
    /\ lent' = lent \ {currentFrameBuffer}
    /\ aPc' = "clear"
    /\ UNCHANGED <<envVars, acquired, monitoring, callerVars, memErr, dataThreadStarted, bufVars,
                   dataLocals, completedFrames, received, ackThreadStarted, ackVars, kPc, varsB>>

\* line 339
DataClear ==
    /\ engine = "A" /\ ~freed /\ aPc = "clear"
    /\ dataThreadStarted' = 0
    /\ aPc' = "done"
    /\ upcalls' = << >>
    /\ UNCHANGED <<envVars, acquired, monitoring, lent, callerVars, memErr, bufVars,
                   dataLocals, completedFrames, received, ackThreadStarted, ackVars, kPc, varsB>>

(***************************************************************************)
(* Engine A, the ack worker: ARVIDEO_Reader_RunAckThread                   *)
(***************************************************************************)
SpawnAck ==
    /\ engine = "A" /\ ~freed /\ kPc = "idle"
    /\ kPc' = "entry"
    /\ UNCHANGED <<envVars, acquired, monitoring, lent, callerVars, memErr, upcalls, ackThreadStarted, ackVars, dataVars, varsB>>

AckUseAfterFree ==
    /\ engine = "A" /\ freed /\ kPc \notin {"idle", "done", "crashed"}
    /\ kPc' = "crashed"
    /\ memErr' = memErr \cup {"useAfterFree"}
    /\ UNCHANGED <<envVars, acquired, monitoring, lent, callerVars, upcalls, ackThreadStarted, ackVars, dataVars, varsB>>

\* line 349
AckStart ==
    /\ engine = "A" /\ ~freed /\ kPc = "entry"
    /\ ackThreadStarted' = 1
    /\ kPc' = "loop"
    /\ UNCHANGED <<envVars, acquired, monitoring, lent, callerVars, memErr, upcalls, ackVars, dataVars, varsB>>

\* lines 351-358 and 364: the loop test; the sleep and the snapshot under ackMutex
AckSnapshot ==
    /\ engine = "A" /\ ~freed /\ kPc = "loop"
    /\ IF threadsShouldStop = 0
         THEN /\ ackMutex = "free"
              /\ sendPacket' = ackPacket
              /\ kPc' = "send"
              /\ UNCHANGED ackThreadStarted
         ELSE /\ ackThreadStarted' = 0
              /\ kPc' = "done"
              /\ UNCHANGED sendPacket
    /\ Locks(IF threadsShouldStop = 0 THEN {Acquire("ack", "ackMutex", {})} ELSE {})
    /\ UNCHANGED <<envVars, monitoring, lent, callerVars, memErr, upcalls, ackMutex, ackPacket, dataVars, varsB>>

\* line 360: ARNETWORK_Manager_SendData
AckSend ==
    /\ engine = "A" /\ ~freed /\ kPc = "send"
    /\ kPc' = "loop"
    /\ UNCHANGED <<envVars, acquired, monitoring, lent, callerVars, memErr, upcalls, ackThreadStarted, ackVars, dataVars, varsB>>

(***************************************************************************)
(* Engine B: constants and the datagrams of the model                      *)
(***************************************************************************)
\* sizeof (ARSTREAM_NetworkHeaders_DataHeader2_t)
DataHeader2Size == 12
\* ARSTREAM_H264_STARTCODE_LENGTH
STARTCODE_LENGTH == 4
\* ARSTREAM_READER2_MONITORING_MAX_POINTS, scaled down
MONITORING_MAX_POINTS == 2
\* the sender of the model makes no access unit longer than this
MaxAuSize == 12
\* the model follows gapsInSeqNum from -MaxGaps to one wrap of the sequence number plus MaxGaps
MaxGaps == 2
\* the last reading of the monotonic clock (microseconds) at which a packet is received
MaxTime == 2

\* sequence numbers the sender uses in the model: the last one before the wrap, 0, 1 and 2
SeqNums == {UINT16_MAX, 0, 1, 2}
\* RTP timestamps (90 kHz) of two access units
RtpTimestamps == {90, 180}
CapChoicesB == {0, 6, 8}
AnswersB == {a \in [buf : {NULL, "same", "other"}, cap : CapChoicesB] : a.buf = NULL => a.cap = 0}

\* Engine B datagrams by what the receive loop reads of them: the header fields,
\* the received size, the type in the first payload byte and the two FU header bits.
\* An FU-A payload carries 0 or 1 bytes after its two header bytes, a single NAL
\* unit is 2 bytes; 11 is shorter than the header, 12 has no payload.
PacketsB ==
    {d \in [seqNum : SeqNums, timestamp : RtpTimestamps, markerBit : {0, 1},
            nalType : {"FUA", "STAPA", "NAL", "none"}, startBit : {0, 1}, endBit : {0, 1},
            recvSize : (DataHeader2Size - 1) .. (DataHeader2Size + 3)] :
        /\ (d.nalType = "none") <=> (d.recvSize <= DataHeader2Size)
        /\ (d.nalType # "FUA") => (d.startBit = 0 /\ d.endBit = 0)
        /\ (d.nalType = "FUA") => (d.recvSize \in {DataHeader2Size + 1, DataHeader2Size + 3})
        /\ (d.nalType = "FUA" /\ d.recvSize = DataHeader2Size + 1) => (d.startBit = 0 /\ d.endBit = 0)
        /\ (d.nalType \in {"NAL", "STAPA"}) => (d.recvSize = DataHeader2Size + 2)}

\* the FU-A packets of one access unit
FragmentPackets ==
    {d \in PacketsB : d.nalType = "FUA" /\ d.timestamp = 90 /\ d.markerBit = 0
                       /\ d.seqNum \in {0, 1, 2} /\ d.recvSize = DataHeader2Size + 3}
\* single NAL units of two access units, and a datagram without payload
UnitPackets ==
    {d \in PacketsB : (d.nalType = "NAL" /\ d.seqNum \in {0, 1})
                       \/ (d.recvSize = DataHeader2Size /\ d.seqNum = 0 /\ d.timestamp = 90
                           /\ d.markerBit = 0)}

\* a slot of the ring nothing was recorded in (memset 0 of ARSTREAM_Reader2_New)
NoPoint == [bytes |-> 0, timestamp |-> 0, seqNum |-> 0, markerBit |-> 0, recvTimestamp |-> 0]

\* datagrams the receive loop only records: no payload, or an aggregation packet,
\* each the last of its access unit, around the wrap of the sequence number
MonitoredPackets ==
    {d \in PacketsB : d.nalType \in {"none", "STAPA"} /\ d.recvSize >= DataHeader2Size
                       /\ d.timestamp = 90 /\ d.markerBit = 1
                       /\ d.seqNum \in {UINT16_MAX, 0, 1}}

\* the parameters of ARSTREAM_Reader2_GetMonitoring that are pointers
Outputs == {"realTimeIntervalUs", "receptionTimeJitter", "bytesReceived", "meanPacketSize",
            "packetSizeStdDev", "packetsReceived", "packetsMissed"}
\* the caller asks for every output, or for all but the two deviations
Requests == {Outputs, Outputs \ {"receptionTimeJitter", "packetSizeStdDev"}}
\* timeIntervalUs: none, the shortest, and one longer than the clock runs
Intervals == {0, 1, MaxTime + 1}

\* a run of bytes of the NAL unit buffer: a start code, the NAL header byte restored
\* from an FU-A start, the body of the FU-A of sequence number seq, a single NAL
\* unit, or bytes nothing was copied to
Piece(kind, seq) == [piece |-> kind, seq |-> seq]
JunkOr(size) == IF size > 0 THEN << Piece("junk", -1) >> ELSE << >>

(***************************************************************************)
(* Engine B: ARSTREAM_Reader2_New and the caller                           *)
(***************************************************************************)
\* the state of a reader just constructed: memset 0, sockets -1, the caller's buffer
InitB ==
    /\ recvThreadStarted = 0
    /\ sendThreadStarted = 0
    /\ sendSocket = -1
    /\ recvSocket = -1
    /\ insertStartCodes \in {0, 1}
    /\ currentNaluBuffer = "buffer"
    /\ currentNaluBufferSize \in CapChoicesB \ {0}
    /\ currentNaluSize = 0
    /\ naluContent = << >>
    /\ firstTimestamp = 0
    /\ monitoringCount = 0
    /\ monitoringIndex = 0
    /\ monitoringPoint = [i \in 0 .. (MONITORING_MAX_POINTS - 1) |-> NoPoint]
    /\ bPc = "idle"
    /\ sPc = "idle"
    /\ shouldStop = 0
    /\ fuPending = 0
    /\ currentAuSize = 0
    /\ startSeqNum = -1
    /\ previousSeqNum = -1
    /\ gapsInSeqNum = 0
    /\ previousTimestamp = 0

\* a stop that flips the flag (what line 274 must not be)
StopReaderBToggle ==
    /\ engine = "B" /\ cPc = "ready"
    /\ threadsShouldStop' = IF freed THEN threadsShouldStop ELSE 1 - threadsShouldStop
    /\ Locks(IF freed THEN {} ELSE {Acquire("caller", "streamMutex", {})})
    /\ UNCHANGED <<envVars, monitoring, lent, readerHandle, cPc, canDelete, retVal, memErr, upcalls, varsA, varsB>>

\* ARSTREAM_Reader2_StopReader
StopReaderB ==
    /\ engine = "B" /\ cPc = "ready"
    /\ threadsShouldStop' = IF freed THEN threadsShouldStop ELSE 1
    /\ Locks(IF freed THEN {} ELSE {Acquire("caller", "streamMutex", {})})
    /\ UNCHANGED <<envVars, monitoring, lent, readerHandle, cPc, canDelete, retVal, memErr, upcalls, varsA, varsB>>

\* lines 291-294: both started flags are clear
CanDeleteB == recvThreadStarted = 0 /\ sendThreadStarted = 0

\* ARSTREAM_Reader2_Delete, up to the unlock of streamMutex
DeleteCheckB ==
    /\ engine = "B" /\ cPc = "ready"
    /\ IF freed
         THEN /\ retVal' = "ARSTREAM_ERROR_BAD_PARAMETERS"
              /\ UNCHANGED <<cPc, canDelete>>
         ELSE /\ canDelete' = IF CanDeleteB THEN 1 ELSE 0
              /\ cPc' = "deleting"
              /\ retVal' = "none"
    /\ Locks(IF freed THEN {} ELSE {Acquire("caller", "streamMutex", {})})
    /\ UNCHANGED <<envVars, monitoring, lent, readerHandle, threadsShouldStop, memErr, upcalls, varsA, varsB>>

\* ARSTREAM_Reader2_Delete, from the unlock to the return: the sockets are closed
\* and the reader freed, or ARSTREAM_ERROR_BUSY
DeleteFinishB ==
    /\ engine = "B" /\ cPc = "deleting"
    /\ IF canDelete = 1
         THEN /\ readerHandle' = NULL
              /\ sendSocket' = -1
              /\ recvSocket' = -1
              /\ retVal' = "ARSTREAM_OK"
         ELSE /\ retVal' = "ARSTREAM_ERROR_BUSY"
              /\ UNCHANGED <<readerHandle, sendSocket, recvSocket>>
    /\ cPc' = "ready"
    /\ canDelete' = 0
    /\ UNCHANGED <<envVars, acquired, monitoring, lent, threadsShouldStop, memErr, upcalls, varsA,
                   recvThreadStarted, sendThreadStarted, insertStartCodes, naluVars,
                   firstTimestamp, monitoringVars, bPc, sPc, recvLocals>>

(***************************************************************************)
(* Engine B, the send worker: ARSTREAM_Reader2_RunSendThread               *)
(***************************************************************************)
SpawnSend ==
    /\ engine = "B" /\ ~freed /\ sPc = "idle"
    /\ sPc' = "entry"
    /\ UNCHANGED <<envVars, acquired, monitoring, lent, callerVars, memErr, upcalls, varsA, sockets, recvThreadStarted,
                   sendThreadStarted, insertStartCodes, naluVars, firstTimestamp,
                   monitoringVars, bPc, recvLocals>>

SendUseAfterFree ==
    /\ engine = "B" /\ freed /\ sPc \notin {"idle", "done", "crashed"}
    /\ sPc' = "crashed"
    /\ memErr' = memErr \cup {"useAfterFree"}
    /\ UNCHANGED <<envVars, acquired, monitoring, lent, callerVars, upcalls, varsA, sockets, recvThreadStarted,
                   sendThreadStarted, insertStartCodes, naluVars, firstTimestamp,
                   monitoringVars, bPc, recvLocals>>

\* lines 930-932
SendStart ==
    /\ engine = "B" /\ ~freed /\ sPc = "entry"
    /\ sendThreadStarted' = 1
    /\ sPc' = "running"
    /\ Locks({Acquire("send", "streamMutex", {})})
    /\ UNCHANGED <<envVars, monitoring, lent, callerVars, memErr, upcalls, varsA, sockets, recvThreadStarted,
                   insertStartCodes, naluVars, firstTimestamp, monitoringVars, bPc, recvLocals>>

\* lines 935-937: the flag is cleared whatever threadsShouldStop is
SendEnd ==
    /\ engine = "B" /\ ~freed /\ sPc = "running"
    /\ sendThreadStarted' = 0
    /\ sPc' = "done"
    /\ Locks({Acquire("send", "streamMutex", {})})
    /\ UNCHANGED <<envVars, monitoring, lent, callerVars, memErr, upcalls, varsA, sockets, recvThreadStarted,
                   insertStartCodes, naluVars, firstTimestamp, monitoringVars, bPc, recvLocals>>

(***************************************************************************)
(* Engine B, the receive worker: ARSTREAM_Reader2_RunRecvThread            *)
(***************************************************************************)
SpawnRecv ==
    /\ engine = "B" /\ ~freed /\ bPc = "idle"
    /\ bPc' = "entry"
    /\ UNCHANGED <<envVars, acquired, monitoring, lent, callerVars, memErr, upcalls, varsA, sockets, recvThreadStarted,
                   sendThreadStarted, insertStartCodes, naluVars, firstTimestamp,
                   monitoringVars, sPc, recvLocals>>

RecvUseAfterFree ==
    /\ engine = "B" /\ freed /\ bPc \notin {"idle", "done", "crashed"}
    /\ bPc' = "crashed"
    /\ memErr' = memErr \cup {"useAfterFree"}
    /\ UNCHANGED <<envVars, acquired, monitoring, lent, callerVars, upcalls, varsA, sockets, recvThreadStarted,
                   sendThreadStarted, insertStartCodes, naluVars, firstTimestamp,
                   monitoringVars, sPc, recvLocals>>

\* a bind that leaves the socket it created open when a later step fails
BindLeavesSocket(ok) ==
    [ret |-> IF ok THEN 0 ELSE -1, recvSocket |-> 1]

\* ARSTREAM_Reader2_Bind: the socket is created, made non-blocking, joined to
\* the multicast group, configured and bound; when any step fails the socket
\* is closed, recvSocket is -1 and the result is -1
Bind(ok) ==
    [ret |-> IF ok THEN 0 ELSE -1, recvSocket |-> IF ok THEN 1 ELSE -1]

\* lines 675-690: malloc of recvBuffer, then ARSTREAM_Reader2_Bind; when either
\* fails the thread returns and recvThreadStarted is never set
RecvBind ==
    /\ engine = "B" /\ ~freed /\ bPc = "entry"
    /\ \E ok \in BOOLEAN :
          /\ bPc' = IF Bind(ok).ret = 0 THEN "start" ELSE "done"
          /\ recvSocket' = Bind(ok).recvSocket
    /\ UNCHANGED <<envVars, acquired, monitoring, lent, callerVars, memErr, upcalls, varsA, sendSocket, recvThreadStarted,
                   sendThreadStarted, insertStartCodes, naluVars, firstTimestamp,
                   monitoringVars, sPc, recvLocals>>

\* lines 693-696
RecvStart ==
    /\ engine = "B" /\ ~freed /\ bPc = "start"
    /\ recvThreadStarted' = 1
    /\ shouldStop' = threadsShouldStop
    /\ bPc' = "loop"
    /\ Locks({Acquire("recv", "streamMutex", {})})
    /\ UNCHANGED <<envVars, monitoring, lent, callerVars, memErr, upcalls, varsA, sockets,
                   sendThreadStarted, insertStartCodes, naluVars, firstTimestamp,
                   monitoringVars, sPc, fuPending, currentAuSize, startSeqNum,
                   previousSeqNum, gapsInSeqNum, previousTimestamp>>

\* the receive worker keeps no mutex over a turn of the loop (what line 550 must
\* not leave)
HeldAtPollUnreleased == {"monitoringMutex"}
\* lines 550 and 903: UpdateMonitoring has unlocked monitoringMutex when the loop
\* locks streamMutex to poll threadsShouldStop
HeldAtPoll == {}

\* lines 725-734: seqNumDelta
SeqNumDelta(currentSeqNum, prev) ==
    IF prev # -1
      THEN LET delta == currentSeqNum - prev
           IN  IF delta < -32768 THEN delta + 65536 ELSE delta
      ELSE 1

\* line 711: 90000 Hz clock to microseconds
CurrentTimestamp(rtpTimestamp) == ((rtpTimestamp * 1000) + 45) \div 90

\* a worker that sets startCodeLength when insertStartCodes is clear and leaves it
\* 0 when it is set (what lines 668-672 must not do)
StartCodeLengthInverted == IF insertStartCodes # 0 THEN 0 ELSE STARTCODE_LENGTH
\* lines 668-672
StartCodeLength == IF insertStartCodes # 0 THEN STARTCODE_LENGTH ELSE 0

\* an upcall of naluCallback: its arguments, the mutexes the worker holds while it
\* makes it (the receive loop takes streamMutex and monitoringMutex only around
\* lines 694-695, 904 and 539-548, and calls out in none of them), the answer,
\* what the buffer holds, and the capacity *newNaluBufferSize holds at the call
\* when it proposes one
UpcallB(cause, buf, size, ts, first, last, gaps, answer, bytes) ==
    [cause |-> cause, buf |-> buf, size |-> size, auTimestamp |-> ts,
     isFirstNaluOfAu |-> first, isLastNaluOfAu |-> last, missed |-> gaps,
     held |-> {}, answer |-> answer, content |-> bytes, proposed |-> 0]

\* memory errors of memcpy (nextNaluBuffer, currentNaluBuffer, currentNaluSize), line 630
NaluPrefixCopyErr(size, next) ==
    IF size = 0 THEN {}
    ELSE (IF currentNaluBuffer = NULL \/ next = NULL THEN {"nullDeref"} ELSE {})
         \cup (IF size > currentNaluBufferSize THEN {"readPastCapacity"} ELSE {})
         \cup ReleaseErr(currentNaluBuffer, lent) \cup ReleaseErr(next, Lend(lent, next))

\* ARSTREAM_Reader2_CheckBufferSize, called when currentNaluSize is size and the
\* buffer holds bytes, with the answer a of the consumer to NALU_BUFFER_TOO_SMALL:
\* the return value, the buffer, capacity and bytes afterwards, the upcalls made
\* (the memcpy of line 630 from or to NULL ends the thread before line 631), the
\* buffers on loan afterwards
CheckBufferSize(size, bytes, payloadSize, a) ==
    IF size + payloadSize > currentNaluBufferSize
      THEN LET fits == a.cap > 0 /\ a.cap >= size + payloadSize
               next == Returned(currentNaluBuffer, a)
               tooSmall == [UpcallB("NALU_BUFFER_TOO_SMALL", currentNaluBuffer, 0, 0, 0, 0, 0, a, bytes)
                               EXCEPT !.proposed = size + payloadSize]
               copied == UpcallB("NALU_COPY_COMPLETE", currentNaluBuffer, 0, 0, 0, 0, 0, NoAnswer, bytes)
           IN  [ret |-> IF fits THEN 0 ELSE -1,
                buf |-> Adopted(currentNaluBuffer, a),
                cap |-> a.cap,
                bytes |-> IF fits \/ ~Replaced(currentNaluBuffer, a) THEN bytes ELSE JunkOr(size),
                ups |-> IF fits /\ "nullDeref" \notin NaluPrefixCopyErr(size, next)
                          THEN << tooSmall, copied >> ELSE << tooSmall >>,
                err |-> IF fits THEN NaluPrefixCopyErr(size, next) ELSE {},
                lent |-> IF fits THEN Release(Lend(lent, next), currentNaluBuffer, next)
                                 ELSE Lend(lent, next),
                asked |-> TRUE]
      ELSE [ret |-> 0, buf |-> currentNaluBuffer, cap |-> currentNaluBufferSize,
            bytes |-> bytes, ups |-> << >>, err |-> {}, lent |-> lent, asked |-> FALSE]

\* memory errors of the writes of bytes [from, to) of a buffer of capacity cap
WriteErr(buf, cap, from, to) ==
    IF to > from
      THEN (IF to > cap THEN {"writePastCapacity"} ELSE {})
           \cup (IF buf = NULL THEN {"nullDeref"} ELSE {})
      ELSE {}
\* the memory error of the same writes when buf is not among the buffers on loan
WriteReleased(buf, on, from, to) == IF to > from THEN ReleaseErr(buf, on) ELSE {}

\* a reader that writes no start code (what lines 792-797 must not be when
\* insertStartCodes is set)
NoStartCodePiece == << >>
\* lines 792-797: the start code, when insertStartCodes is set
StartCodePiece == IF StartCodeLength > 0 THEN << Piece("startCode", -1) >> ELSE << >>

\* the reader left as it is by a packet, but for fuPending
Kept(fu, au) ==
    [fu |-> fu, size |-> currentNaluSize, buf |-> currentNaluBuffer,
     cap |-> currentNaluBufferSize, bytes |-> naluContent, au |-> au,
     ups |-> << >>, err |-> {}, lent |-> lent, asked |-> FALSE, answered |-> FALSE]

\* CheckBufferSize has failed: the answer is adopted, nothing is written
Refused(chk, fu, size, au) ==
    [fu |-> fu, size |-> size, buf |-> chk.buf, cap |-> chk.cap, bytes |-> chk.bytes,
     au |-> au, ups |-> chk.ups, err |-> chk.err, lent |-> chk.lent, asked |-> chk.asked,
     answered |-> FALSE]

\* lines 810 and 863: bytes [from, size) have been written; the NALU_COMPLETE
\* upcall with answer c, whose buffer and capacity the reader adopts (a write to
\* NULL ends the thread before the upcall)
Completed(d, chk, fu, from, size, bytes, au, gaps, start, c) ==
    [fu |-> fu, size |-> size, buf |-> Adopted(chk.buf, c), cap |-> c.cap,
     bytes |-> IF Replaced(chk.buf, c) THEN JunkOr(size) ELSE bytes,
     au |-> au,
     ups |-> IF "nullDeref" \in chk.err \cup WriteErr(chk.buf, chk.cap, from, size)
               THEN chk.ups
               ELSE chk.ups \o << UpcallB("NALU_COMPLETE", chk.buf, size,
                                          CurrentTimestamp(d.timestamp),
                                          IF start = d.seqNum THEN 1 ELSE 0, d.markerBit,
                                          gaps, c, bytes) >>,
     err |-> chk.err \cup WriteErr(chk.buf, chk.cap, from, size)
             \cup WriteReleased(chk.buf, chk.lent, from, size),
     lent |-> Lend(Release(chk.lent, chk.buf, Returned(chk.buf, c)), Returned(chk.buf, c)),
     asked |-> chk.asked, answered |-> TRUE]

\* lines 766-827: an FU-A packet
FuaStep(d, a, c, au, gaps, start) ==
    LET payloadSize == d.recvSize - DataHeader2Size
        fu1 == IF d.startBit = 1 THEN 1 ELSE fuPending
        size1 == IF d.startBit = 1 THEN 0 ELSE currentNaluSize
        bytes1 == IF d.startBit = 1 THEN << >> ELSE naluContent
        outputSize == (payloadSize - 2) + (IF d.startBit = 1 THEN StartCodeLength + 1 ELSE 0)
        chk == CheckBufferSize(size1, bytes1, outputSize, a)
        fu2 == IF d.endBit = 1 THEN 0 ELSE fu1
        size2 == size1 + outputSize
        bytes2 == chk.bytes
                  \o (IF d.startBit = 1 THEN StartCodePiece \o << Piece("nalHeader", d.seqNum) >> ELSE << >>)
                  \o (IF payloadSize > 2 THEN << Piece("fuBody", d.seqNum) >> ELSE << >>)
    IN  IF payloadSize < 2 THEN Kept(fuPending, au)
        ELSE IF fu1 = 0 THEN Kept(fu2, au)
        ELSE IF chk.ret # 0 THEN Refused(chk, fu2, size1, au)
        ELSE IF d.endBit = 1
               THEN Completed(d, chk, fu2, size1, size2, bytes2, au + outputSize, gaps, start, c)
        ELSE [fu |-> fu2, size |-> size2, buf |-> chk.buf, cap |-> chk.cap, bytes |-> bytes2,
              au |-> au + outputSize, ups |-> chk.ups,
              err |-> chk.err \cup WriteErr(chk.buf, chk.cap, size1, size2)
                      \cup WriteReleased(chk.buf, chk.lent, size1, size2),
              lent |-> chk.lent, asked |-> chk.asked, answered |-> FALSE]

\* lines 843-869: a single NAL unit
SingleStep(d, a, c, au, gaps, start) ==
    LET payloadSize == d.recvSize - DataHeader2Size
        chk == CheckBufferSize(0, << >>, payloadSize + StartCodeLength, a)
        size2 == StartCodeLength + payloadSize
        bytes2 == StartCodePiece \o << Piece("nal", d.seqNum) >>
    IN  IF chk.ret # 0 THEN Refused(chk, 0, 0, au)
        ELSE Completed(d, chk, 0, 0, size2, bytes2, au + size2, gaps, start, c)

\* a loop that keeps a pending FU-A over an aggregation packet (what lines 829-837
\* must not be)
NaluStepKeepsPending(d, a, c, au, gaps, start) ==
    IF d.recvSize - DataHeader2Size < 1 THEN Kept(fuPending, au)
    ELSE IF d.nalType = "FUA" THEN FuaStep(d, a, c, au, gaps, start)
    ELSE IF d.nalType = "STAPA" THEN Kept(fuPending, au)
    ELSE SingleStep(d, a, c, au, gaps, start)
\* lines 758-875: the payload of a packet that is in order
NaluStep(d, a, c, au, gaps, start) ==
    IF d.recvSize - DataHeader2Size < 1 THEN Kept(fuPending, au)
    ELSE IF d.nalType = "FUA" THEN FuaStep(d, a, c, au, gaps, start)
    ELSE IF d.nalType = "STAPA" THEN Kept(0, au)
    ELSE SingleStep(d, a, c, au, gaps, start)

\* ARSTREAM_Reader2_UpdateMonitoring, when clock_gettime reads curTime
UpdateMonitoring(d, curTime) ==
    /\ monitoringCount' = IF monitoringCount < MONITORING_MAX_POINTS
                            THEN monitoringCount + 1 ELSE monitoringCount
    /\ monitoringIndex' = (monitoringIndex + 1) % MONITORING_MAX_POINTS
    /\ monitoringPoint' = [monitoringPoint EXCEPT ![(monitoringIndex + 1) % MONITORING_MAX_POINTS] =
                              [bytes |-> d.recvSize, timestamp |-> d.timestamp,
                               seqNum |-> d.seqNum, markerBit |-> d.markerBit,
                               recvTimestamp |-> curTime]]

\* a loop that is left whatever shouldStop is (what line 698 must not be)
RecvExitUnasked ==
    /\ engine = "B" /\ ~freed /\ bPc = "loop"
    /\ bPc' = "cancel"
    /\ upcalls' = << >>
    /\ UNCHANGED <<envVars, acquired, monitoring, lent, callerVars, memErr, varsA, sockets, recvThreadStarted,
                   sendThreadStarted, insertStartCodes, naluVars, firstTimestamp,
                   monitoringVars, sPc, recvLocals>>

\* line 698: the loop is left once the local shouldStop is set
RecvExit ==
    /\ engine = "B" /\ ~freed /\ bPc = "loop"
    /\ shouldStop # 0
    /\ bPc' = "cancel"
    /\ upcalls' = << >>
    /\ UNCHANGED <<envVars, acquired, monitoring, lent, callerVars, memErr, varsA, sockets, recvThreadStarted,
                   sendThreadStarted, insertStartCodes, naluVars, firstTimestamp,
                   monitoringVars, sPc, recvLocals>>

\* lines 700-707 and 903-905: the read times out or fails, or the datagram is
\* shorter than the header; then the poll of threadsShouldStop
RecvNothing ==
    /\ engine = "B" /\ ~freed /\ bPc = "loop"
    /\ shouldStop = 0
    /\ shouldStop' = threadsShouldStop
    /\ upcalls' = << >>
    /\ Locks({Acquire("recv", "streamMutex", HeldAtPoll)})
    /\ UNCHANGED <<envVars, monitoring, lent, callerVars, memErr, varsA, sockets, recvThreadStarted,
                   sendThreadStarted, insertStartCodes, naluVars, firstTimestamp,
                   monitoringVars, bPc, sPc, fuPending, currentAuSize, startSeqNum,
                   previousSeqNum, gapsInSeqNum, previousTimestamp>>

\* the answers the consumer gives in one turn of the loop: a to
\* NALU_BUFFER_TOO_SMALL and c to NALU_COMPLETE, NoAnswer to an upcall not made
TurnAnswers(d, au, gaps, start) ==
    LET asked == NaluStep(d, NoAnswer, NoAnswer, au, gaps, start).asked
        first == IF asked THEN AnswersFor(currentNaluBuffer) ELSE {NoAnswer}
    IN  UNION {LET r == NaluStep(d, a, NoAnswer, au, gaps, start)
               IN  IF r.answered THEN {<<a, c>> : c \in AnswersFor(r.buf)}
                                 ELSE {<<a, NoAnswer>>} : a \in first}

\* a loop that keeps its counts over the marker bit (what lines 877-890 must not be)
NoMarkerReset(d, count) == count
\* lines 877-890: the marker bit zeroes gapsInSeqNum and currentAuSize
MarkerReset(d, count) == IF d.markerBit = 1 THEN 0 ELSE count

\* lines 708-900: what a turn of the loop does with datagram d, which holds a
\* header and is received tick after the datagram before
RecvTurn(d, tick) ==
        LET currentTimestamp == CurrentTimestamp(d.timestamp)
            curTime == monitoringPoint[monitoringIndex].recvTimestamp + tick
            start == IF currentAuSize = 0 THEN d.seqNum ELSE startSeqNum
            seqNumDelta == SeqNumDelta(d.seqNum, previousSeqNum)
            gaps1 == IF previousSeqNum # -1 THEN gapsInSeqNum + seqNumDelta - 1 ELSE gapsInSeqNum
            newAu == previousTimestamp # 0 /\ currentTimestamp # previousTimestamp
            gaps2 == IF newAu THEN 0 ELSE gaps1
            au2 == IF newAu THEN 0 ELSE currentAuSize
        IN  /\ d.recvSize >= DataHeader2Size
            /\ firstTimestamp' = IF firstTimestamp = 0 THEN d.timestamp ELSE firstTimestamp
            /\ startSeqNum' = start
            /\ curTime <= MaxTime
            /\ UpdateMonitoring(d, curTime)
            /\ IF seqNumDelta > 0
                 THEN \E ac \in TurnAnswers(d, au2, gaps2, start) :
                      LET r == NaluStep(d, ac[1], ac[2], au2, gaps2, start)
                      IN  /\ r.au <= MaxAuSize
                          /\ gaps2 \in (0 - MaxGaps) .. (UINT16_MAX + 1 + MaxGaps)
                          /\ memErr' = memErr \cup r.err
                          /\ upcalls' = r.ups
                          /\ bPc' = IF "nullDeref" \in r.err THEN "crashed" ELSE "loop"
                          /\ fuPending' = r.fu
                          /\ currentNaluSize' = r.size
                          /\ currentNaluBuffer' = r.buf
                          /\ currentNaluBufferSize' = r.cap
                          /\ naluContent' = r.bytes
                          /\ lent' = r.lent
                          /\ gapsInSeqNum' = MarkerReset(d, gaps2)
                          /\ currentAuSize' = MarkerReset(d, r.au)
                          /\ previousSeqNum' = d.seqNum
                          /\ previousTimestamp' = currentTimestamp
                 ELSE /\ gaps1 \in (0 - MaxGaps) .. (UINT16_MAX + 1 + MaxGaps)
                      /\ gapsInSeqNum' = gaps1
                      /\ upcalls' = << >>
                      /\ UNCHANGED <<memErr, lent, bPc, fuPending, naluVars, currentAuSize,
                                     previousSeqNum, previousTimestamp>>

\* lines 708-905: one turn of the loop on a datagram that holds a header
RecvPacket ==
    /\ engine = "B" /\ ~freed /\ bPc = "loop"
    /\ shouldStop = 0
    /\ \E d \in feed, tick \in ticks : RecvTurn(d, tick)
    /\ shouldStop' = threadsShouldStop
    /\ Locks({Acquire("recv", "monitoringMutex", {})}
             \cup (IF bPc' = "crashed" THEN {} ELSE {Acquire("recv", "streamMutex", HeldAtPoll)}))
    /\ UNCHANGED <<envVars, monitoring, callerVars, varsA, sockets, recvThreadStarted,
                   sendThreadStarted, insertStartCodes, sPc>>

\* line 908: the CANCEL upcall
RecvCancel ==
    /\ engine = "B" /\ ~freed /\ bPc = "cancel"
    /\ upcalls' = << UpcallB("CANCEL", currentNaluBuffer, 0, 0, 0, 0, 0, NoAnswer, naluContent) >>
    /\ lent' = lent \ {currentNaluBuffer}
    /\ bPc' = "clear"
    /\ UNCHANGED <<envVars, acquired, monitoring, callerVars, memErr, varsA, sockets, recvThreadStarted,
                   sendThreadStarted, insertStartCodes, naluVars, firstTimestamp,
                   monitoringVars, sPc, recvLocals>>

\* lines 911-913
RecvClear ==
    /\ engine = "B" /\ ~freed /\ bPc = "clear"
    /\ recvThreadStarted' = 0
    /\ bPc' = "done"
    /\ upcalls' = << >>
    /\ Locks({Acquire("recv", "streamMutex", {})})
    /\ UNCHANGED <<envVars, monitoring, lent, callerVars, memErr, varsA, sockets,
                   sendThreadStarted, insertStartCodes, naluVars, firstTimestamp,
                   monitoringVars, sPc, recvLocals>>

(***************************************************************************)
(* Construction: ARVIDEO_Reader_New and ARSTREAM_Reader2_New               *)
(***************************************************************************)
\* the arguments of ARVIDEO_Reader_New, and whether malloc and the two
\* ARSAL_Mutex_Init succeed
ParamsA ==
    [manager : {NULL, "manager"}, callback : {NULL, "callback"},
     frameBuffer : {NULL, "buffer"}, frameBufferSize : CapChoices, alloc : BOOLEAN]

\* the config argument: the pointer, and the fields of ARSTREAM_Reader2_Config_t
\* that ARSTREAM_Reader2_New tests or the model follows; a NULL config has no fields
ConfigsB ==
    [ptr : {"config"}, recvPort : {-1, 0, 1}, recvTimeoutSec : {0, 1},
     naluCallback : {NULL, "callback"}, insertStartCodes : {0, 1}]
NullConfig ==
    [ptr |-> NULL, recvPort |-> 0, recvTimeoutSec |-> 0, naluCallback |-> NULL,
     insertStartCodes |-> 0]
\* the arguments of ARSTREAM_Reader2_New (error is not NULL), and whether malloc
\* and the two ARSAL_Mutex_Init succeed
ParamsB ==
    [config : {NullConfig} \cup ConfigsB, naluBuffer : {NULL, "buffer"},
     naluBufferSize : CapChoicesB, alloc : BOOLEAN]

\* lines 117-123 of ARVIDEO_Reader.c: the ARGS check
BadParametersA(p) ==
    p.manager = NULL \/ p.callback = NULL \/ p.frameBuffer = NULL \/ p.frameBufferSize = 0

\* an ARGS check that lets recvPort 0 pass (what line 161 must not be)
BadParametersPortZero(p) ==
    \/ p.config.ptr = NULL
    \/ p.config.recvPort < 0 \/ p.config.recvTimeoutSec <= 0 \/ p.config.naluCallback = NULL
    \/ p.naluBuffer = NULL \/ p.naluBufferSize = 0

\* lines 160-165 of ARSTREAM_Reader2.c: the ARGS check
BadParametersB(p) ==
    \/ p.config.ptr = NULL
    \/ p.config.recvPort <= 0 \/ p.config.recvTimeoutSec <= 0 \/ p.config.naluCallback = NULL
    \/ p.naluBuffer = NULL \/ p.naluBufferSize = 0

\* the application holds no reader and no thread runs on one
NoReaderYet ==
    /\ freed /\ cPc = "ready"
    /\ aPc = "idle" /\ kPc = "idle" /\ bPc = "idle" /\ sPc = "idle"

\* ARVIDEO_Reader_New: NULL when the ARGS check or an allocation fails; else the
\* reader, of which malloc leaves ackPacket as it finds it
NewA(p) ==
    /\ engine = "A" /\ NoReaderYet
    /\ retVal' = "none"
    /\ IF BadParametersA(p) \/ ~p.alloc
         THEN UNCHANGED <<readerHandle, threadsShouldStop, dataThreadStarted, ackThreadStarted,
                          bufVars, ackPacket, lent>>
         ELSE /\ readerHandle' = "reader"
              /\ lent' = {p.frameBuffer}
              /\ currentFrameBufferSize' = p.frameBufferSize
              /\ currentFrameBuffer' = p.frameBuffer
              /\ content' = {}
              /\ ackPacket' \in [numFrame : FrameNums \cup {NoFrame}, bits : SUBSET FragNums]
              /\ currentFrameSize' = 0
              /\ threadsShouldStop' = 0
              /\ dataThreadStarted' = 0
              /\ ackThreadStarted' = 0
    /\ UNCHANGED <<envVars, acquired, monitoring, cPc, canDelete, memErr, upcalls, ackMutex,
                   sendPacket, aPc, kPc, dataLocals, completedFrames, received, varsB>>

\* ARSTREAM_Reader2_New: NULL and ARSTREAM_ERROR_BAD_PARAMETERS or
\* ARSTREAM_ERROR_ALLOC in *error; else the reader (memset 0, sockets -1, the
\* caller's buffer) and ARSTREAM_OK
NewB(p) ==
    /\ engine = "B" /\ NoReaderYet
    /\ IF BadParametersB(p) \/ ~p.alloc
         THEN /\ retVal' = IF BadParametersB(p) THEN "ARSTREAM_ERROR_BAD_PARAMETERS"
                                                ELSE "ARSTREAM_ERROR_ALLOC"
              /\ UNCHANGED <<readerHandle, threadsShouldStop, recvThreadStarted,
                             sendThreadStarted, sockets, insertStartCodes, naluVars,
                             firstTimestamp, monitoringVars, lent>>
         ELSE /\ retVal' = "ARSTREAM_OK"
              /\ lent' = {p.naluBuffer}
              /\ readerHandle' = "reader"
              /\ threadsShouldStop' = 0
              /\ recvThreadStarted' = 0
              /\ sendThreadStarted' = 0
              /\ sendSocket' = -1
              /\ recvSocket' = -1
              /\ insertStartCodes' = p.config.insertStartCodes
              /\ currentNaluBufferSize' = p.naluBufferSize
              /\ currentNaluBuffer' = p.naluBuffer
              /\ currentNaluSize' = 0
              /\ naluContent' = << >>
              /\ firstTimestamp' = 0
              /\ monitoringCount' = 0
              /\ monitoringIndex' = 0
              /\ monitoringPoint' = [i \in 0 .. (MONITORING_MAX_POINTS - 1) |-> NoPoint]
    /\ UNCHANGED <<envVars, acquired, monitoring, cPc, canDelete, memErr, upcalls, varsA,
                   bPc, sPc, recvLocals>>

New == (\E p \in ParamsA : NewA(p)) \/ (\E p \in ParamsB : NewB(p))

(***************************************************************************)
(* Engine B: ARSTREAM_Reader2_GetMonitoring                                *)
(***************************************************************************)
\* lines 987 and 1010: the slot before idx in the ring
RingBefore(idx) == IF idx - 1 >= 0 THEN idx - 1 ELSE MONITORING_MAX_POINTS - 1

\* the slot idx is at once n points have been walked (lines 976 and 987)
RECURSIVE WalkSlot(_)
WalkSlot(n) == IF n <= 1 THEN monitoringIndex ELSE RingBefore(WalkSlot(n - 1))

\* the slot the i-th turn (from 0) of the loop of line 1008 reads: idx starts at
\* monitoringIndex and is moved back before the read
RECURSIVE DeviationSlot(_)
DeviationSlot(i) == RingBefore(IF i = 0 THEN monitoringIndex ELSE DeviationSlot(i - 1))

\* lines 983-1000: points when the loop of line 985 ends, given its value now
RECURSIVE WalkedPoints(_, _)
WalkedPoints(points, timeIntervalUs) ==
    LET startTime == monitoringPoint[monitoringIndex].recvTimestamp
        curTime == monitoringPoint[WalkSlot(points)].recvTimestamp
    IN  IF startTime - curTime < timeIntervalUs /\ points < monitoringCount
          THEN WalkedPoints(points + 1, timeIntervalUs)
          ELSE points

\* lines 978 and 990: bytesSum over the first n points walked
RECURSIVE BytesSum(_)
BytesSum(n) == IF n = 0 THEN 0 ELSE BytesSum(n - 1) + monitoringPoint[WalkSlot(n)].bytes

\* lines 995-996: seqNumDelta of the walk, from the point walked before to this one
WalkDelta(previousSeq, currentSeq) ==
    LET delta == previousSeq - currentSeq
    IN  IF delta < -32768 THEN delta + 65536 ELSE delta

\* lines 982 and 997: int gapsInSeqNum over the first n points walked
RECURSIVE WalkGaps(_)
WalkGaps(n) ==
    IF n <= 1 THEN 0
    ELSE WalkGaps(n - 1) + WalkDelta(monitoringPoint[WalkSlot(n - 1)].seqNum,
                                     monitoringPoint[WalkSlot(n)].seqNum) - 1

\* lines 979, 991 and 1013: auTimestamp of a slot; the uint32_t difference wraps when
\* the slot's timestamp is below firstTimestamp
AuTimestamp(slot) == (((monitoringPoint[slot].timestamp - firstTimestamp) * 1000) + 45) \div 90
\* lines 980, 992 and 1014: curTime - auTimestamp, which wraps when it is negative
ReceptionTime(slot) == monitoringPoint[slot].recvTimestamp - AuTimestamp(slot)
ReceptionWraps(slot) ==
    monitoringPoint[slot].timestamp < firstTimestamp \/ ReceptionTime(slot) < 0

\* lines 980 and 993: receptionTimeSum over the first n points walked
RECURSIVE ReceptionTimeSum(_)
ReceptionTimeSum(n) ==
    IF n = 0 THEN 0 ELSE ReceptionTimeSum(n - 1) + ReceptionTime(WalkSlot(n))

\* line 1015: packetSizeVarSum after n turns of the loop of line 1008 (the products
\* of the model stay below 2^31, where the uint32_t product is the square)
RECURSIVE PacketSizeVarSum(_, _)
PacketSizeVarSum(n, mean) ==
    IF n = 0 THEN 0
    ELSE PacketSizeVarSum(n - 1, mean)
         + (monitoringPoint[DeviationSlot(n - 1)].bytes - mean)
           * (monitoringPoint[DeviationSlot(n - 1)].bytes - mean)

\* line 1016: receptionTimeVarSum after n turns of the loop of line 1008
RECURSIVE ReceptionTimeVarSum(_, _)
ReceptionTimeVarSum(n, mean) ==
    IF n = 0 THEN 0
    ELSE ReceptionTimeVarSum(n - 1, mean)
         + (ReceptionTime(DeviationSlot(n - 1)) - mean) * (ReceptionTime(DeviationSlot(n - 1)) - mean)

\* lines 1028 and 1040: (uint32_t) sqrt ((double) sum / points)
StdDev(sum, points) == CHOOSE k \in 0 .. sum : k * k * points <= sum /\ (k + 1) * (k + 1) * points > sum

\* what GetMonitoring returns and writes through the pointers of out, for a reader
\* that is not NULL and timeIntervalUs > 0, and the mutexes it holds when it returns
\* (monitoringMutex, locked at line 968, is unlocked at line 972 or 1020).  A reception time that wraps makes
\* receptionTimeJitter a number beyond the integers of the model, written as -1;
\* packetsMissed is the int gapsInSeqNum, whose conversion to uint32_t adds 2^32
\* when it is negative.
Monitored(timeIntervalUs, out) ==
    LET points == WalkedPoints(1, timeIntervalUs)
        startTime == monitoringPoint[monitoringIndex].recvTimestamp
        endTime == monitoringPoint[WalkSlot(points)].recvTimestamp
        bytesSum == BytesSum(points)
        meanPacketSize == bytesSum \div points
        meanReceptionTime == ReceptionTimeSum(points) \div points
        deviations == IF {"receptionTimeJitter", "packetSizeStdDev"} \cap out # {} THEN points ELSE 0
        wraps == \/ \E n \in 1 .. points : ReceptionWraps(WalkSlot(n))
                 \/ \E i \in 0 .. (deviations - 1) : ReceptionWraps(DeviationSlot(i))
        Given(name, value) == IF name \in out THEN value ELSE 0
    IN  IF monitoringCount = 0
          THEN [NoMonitoring EXCEPT !.ret = "ARSTREAM_ERROR_BAD_PARAMETERS",
                                    !.timeIntervalUs = timeIntervalUs]
          ELSE [ret |-> "ARSTREAM_OK", timeIntervalUs |-> timeIntervalUs, written |-> out,
                realTimeIntervalUs |-> Given("realTimeIntervalUs", startTime - endTime),
                receptionTimeJitter |->
                    Given("receptionTimeJitter",
                          IF wraps THEN -1
                          ELSE StdDev(ReceptionTimeVarSum(deviations, meanReceptionTime), points)),
                bytesReceived |-> Given("bytesReceived", bytesSum),
                meanPacketSize |-> Given("meanPacketSize", meanPacketSize),
                packetSizeStdDev |->
                    Given("packetSizeStdDev",
                          StdDev(PacketSizeVarSum(deviations, meanPacketSize), points)),
                packetsReceived |-> Given("packetsReceived", points),
                packetsMissed |-> Given("packetsMissed", WalkGaps(points)),
                held |-> {}]

\* a query that goes on when timeIntervalUs is 0 (what line 963 must not be)
GetMonitoringOfAnyInterval(timeIntervalUs, out) ==
    /\ engine = "B"
    /\ IF freed
         THEN /\ monitoring' = [NoMonitoring EXCEPT !.ret = "ARSTREAM_ERROR_BAD_PARAMETERS",
                                                   !.timeIntervalUs = timeIntervalUs]
              /\ UNCHANGED acquired
         ELSE /\ monitoring' = Monitored(timeIntervalUs, out)
              /\ Locks({Acquire("monitor", "monitoringMutex", {})})
    /\ UNCHANGED <<envVars, lent, callerVars, memErr, upcalls, varsA, varsB>>

\* ARSTREAM_Reader2_GetMonitoring called by a thread of the application with the
\* handle it holds: lines 963-966, then the whole query under monitoringMutex
GetMonitoringOf(timeIntervalUs, out) ==
    /\ engine = "B"
    /\ IF freed \/ timeIntervalUs = 0
         THEN /\ monitoring' = [NoMonitoring EXCEPT !.ret = "ARSTREAM_ERROR_BAD_PARAMETERS",
                                                   !.timeIntervalUs = timeIntervalUs]
              /\ UNCHANGED acquired
         ELSE /\ monitoring' = Monitored(timeIntervalUs, out)
              /\ Locks({Acquire("monitor", "monitoringMutex", {})})
    /\ UNCHANGED <<envVars, lent, callerVars, memErr, upcalls, varsA, varsB>>

GetMonitoring == \E timeIntervalUs \in Intervals, out \in Requests : GetMonitoringOf(timeIntervalUs, out)

(***************************************************************************)
(* Specifications                                                          *)
(***************************************************************************)
\* the fields of the other engine, which a reader does not have
NoReaderA ==
    /\ dataThreadStarted = 0 /\ ackThreadStarted = 0 /\ ackMutex = "free"
    /\ ackPacket = [numFrame |-> 0, bits |-> {}] /\ sendPacket = [numFrame |-> 0, bits |-> {}]
    /\ currentFrameBuffer = NULL /\ currentFrameBufferSize = 0 /\ currentFrameSize = 0
    /\ content = {} /\ aPc = "idle" /\ kPc = "idle" /\ header = NoDatagram
    /\ previousFNum = UINT16_MAX /\ skipCurrentFrame = 0 /\ completedFrames = {}
    /\ received = {}
NoReaderB ==
    /\ recvThreadStarted = 0 /\ sendThreadStarted = 0 /\ sendSocket = -1 /\ recvSocket = -1
    /\ insertStartCodes = 0 /\ currentNaluBuffer = NULL /\ currentNaluBufferSize = 0
    /\ currentNaluSize = 0 /\ naluContent = << >> /\ firstTimestamp = 0
    /\ monitoringCount = 0 /\ monitoringIndex = 0
    /\ monitoringPoint = [i \in 0 .. (MONITORING_MAX_POINTS - 1) |-> NoPoint]
    /\ bPc = "idle" /\ sPc = "idle" /\ shouldStop = 0 /\ fuPending = 0 /\ currentAuSize = 0
    /\ startSeqNum = -1 /\ previousSeqNum = -1 /\ gapsInSeqNum = 0 /\ previousTimestamp = 0

InitReader ==
    /\ InitCaller
    /\ IF engine = "A" THEN InitA /\ NoReaderB ELSE InitB /\ NoReaderA

\* the life of a reader: the caller and every worker, on a network that delivers the
\* two fragments of one frame (Engine A) or one NAL unit (Engine B), with a consumer
\* that keeps its buffer and answers with any capacity
LifeDatagrams ==
    {d \in Datagrams : d.frameNumber = 0 /\ d.recvSize = DataHeaderSize + FRAGMENT_SIZE}
LifePackets ==
    {d \in PacketsB : d.nalType = "NAL" /\ d.seqNum = 0 /\ d.timestamp = 90 /\ d.markerBit = 1}

Init ==
    /\ engine \in {"A", "B"}
    /\ feed = IF engine = "A" THEN LifeDatagrams ELSE LifePackets
    /\ grants = {a \in IF engine = "A" THEN Answers ELSE AnswersB : a.buf = "same"}
    /\ ticks = {0}
    /\ InitReader

DataWorker ==
    \/ SpawnData
    \/ DataUseAfterFree
    \/ DataStart
    \/ DataRead
    \/ DataTooSmall
    \/ DataCopy
    \/ DataComplete
    \/ DataCancel
    \/ DataClear

AckWorker ==
    \/ SpawnAck
    \/ AckUseAfterFree
    \/ AckStart
    \/ AckSnapshot
    \/ AckSend

RecvWorker ==
    \/ SpawnRecv
    \/ RecvUseAfterFree
    \/ RecvBind
    \/ RecvStart
    \/ RecvExit
    \/ RecvNothing
    \/ RecvPacket
    \/ RecvCancel
    \/ RecvClear

SendWorker ==
    \/ SpawnSend
    \/ SendUseAfterFree
    \/ SendStart
    \/ SendEnd

Caller ==
    \/ StopReaderA
    \/ DeleteCheckA
    \/ DeleteFinishA
    \/ StopReaderB
    \/ DeleteCheckB
    \/ DeleteFinishB

Next ==
    \/ Caller
    \/ DataWorker
    \/ AckWorker
    \/ RecvWorker
    \/ SendWorker

Spec == Init /\ [][Next]_vars

\* fair scheduling of the workers: every step of a worker that stays possible is
\* taken (a blocking read times out, a callback returns), and a consumer that is
\* asked for a bigger buffer again and again gives one that holds a whole frame
Fairness ==
    /\ WF_vars(DataStart \/ DataRead \/ DataCopy \/ DataComplete \/ DataCancel \/ DataClear)
    /\ WF_vars(DataTooSmall)
    /\ SF_vars(DataTooSmall /\ currentFrameBufferSize' = MaxFrags * FRAGMENT_SIZE)
    /\ WF_vars(AckStart \/ AckSnapshot \/ AckSend)
    /\ WF_vars(RecvBind \/ RecvStart \/ RecvExit \/ RecvNothing \/ RecvPacket
                \/ RecvCancel \/ RecvClear)
    /\ WF_vars(SendStart \/ SendEnd)

FairSpec == Spec /\ Fairness

\* a reader on a network that delivers any datagram, with a consumer that gives any answer
InitData ==
    /\ engine \in {"A", "B"}
    /\ feed \in IF engine = "A" THEN {Datagrams} ELSE {FragmentPackets, UnitPackets}
    /\ grants = IF engine = "A" THEN Answers ELSE AnswersB
    /\ ticks = {0}
    /\ InitReader

NextData ==
    \/ StopReaderA
    \/ SpawnData
    \/ DataStart
    \/ DataRead
    \/ DataTooSmall
    \/ DataCopy
    \/ DataComplete
    \/ DataCancel
    \/ DataClear
    \/ StopReaderB
    \/ SpawnRecv
    \/ RecvBind
    \/ RecvStart
    \/ RecvExit
    \/ RecvNothing
    \/ RecvPacket
    \/ RecvCancel
    \/ RecvClear

SpecData == InitData /\ [][NextData]_vars

\* the receive worker of Engine B on a network that delivers the FU-A packets of an
\* access unit, or single NAL units, in any order, with a consumer that gives any
\* answer, and a caller that may stop the reader
InitNalu ==
    /\ engine = "B"
    /\ feed \in {FragmentPackets, UnitPackets}
    /\ grants = AnswersB
    /\ ticks = {0}
    /\ InitReader

NextNalu ==
    \/ StopReaderB
    \/ SpawnRecv
    \/ RecvBind
    \/ RecvStart
    \/ RecvExit
    \/ RecvNothing
    \/ RecvPacket
    \/ RecvCancel
    \/ RecvClear

\* the same on the FU-A packets alone, and on the single NAL units alone
InitFua == InitNalu /\ feed = FragmentPackets
SpecFua == InitFua /\ [][NextNalu]_vars
InitUnits == InitNalu /\ feed = UnitPackets
SpecUnits == InitUnits /\ [][NextNalu]_vars

\* the same on the first two FU-A packets of an access unit followed by
\* aggregation packets and single NAL units
MixedPackets ==
    {d \in PacketsB : /\ d.timestamp = 90 /\ d.markerBit = 0
                       /\ \/ d.nalType = "FUA" /\ d.seqNum \in {0, 1} /\ d.recvSize = DataHeader2Size + 3
                          \/ d.nalType \in {"STAPA", "NAL"} /\ d.seqNum \in {1, 2}}
InitMixed ==
    /\ engine = "B"
    /\ feed = MixedPackets
    /\ grants = AnswersB
    /\ ticks = {0}
    /\ InitReader
SpecMixed == InitMixed /\ [][NextNalu]_vars

\* a data worker that is not stopped, on a network that keeps delivering the full
\* fragments of frames 0 and 1, with a consumer that keeps its buffer and answers
\* with any capacity
SkipDatagrams ==
    {d \in Datagrams : d.frameNumber \in {0, 1} /\ d.recvSize = DataHeaderSize + FRAGMENT_SIZE}

InitSkip ==
    /\ engine = "A"
    /\ feed = SkipDatagrams
    /\ grants = {a \in Answers : a.buf = "same"}
    /\ ticks = {0}
    /\ InitReader

NextSkip ==
    \/ SpawnData
    \/ DataStart
    \/ DataRead
    \/ DataTooSmall
    \/ DataCopy
    \/ DataComplete

SpecSkip == InitSkip /\ [][NextSkip]_vars

FairSkip == SpecSkip /\ Fairness

\* the life of a reader whose application also queries the monitoring
NextLocks ==
    \/ Next
    \/ GetMonitoring

SpecLocks == Init /\ [][NextLocks]_vars

\* a receive worker on a network that delivers packets it only records, one clock
\* tick or less apart, and an application that queries the monitoring
InitMonitoring ==
    /\ engine = "B"
    /\ feed = MonitoredPackets
    /\ grants = {a \in AnswersB : a.buf = "same"}
    /\ ticks = {0, 1}
    /\ InitReader
    /\ insertStartCodes = 0
    /\ currentNaluBufferSize = 8

NextMonitoring ==
    \/ SpawnRecv
    \/ RecvBind
    \/ RecvStart
    \/ RecvPacket
    \/ GetMonitoring

SpecMonitoring == InitMonitoring /\ [][NextMonitoring]_vars

\* the life of a reader from before its construction: the application holds no
\* reader, constructs one with any arguments, and goes on as in Spec
InitNew ==
    /\ engine \in {"A", "B"}
    /\ feed = IF engine = "A" THEN LifeDatagrams ELSE LifePackets
    /\ grants = {a \in IF engine = "A" THEN Answers ELSE AnswersB : a.buf = "same"}
    /\ ticks = {0}
    /\ readerHandle = NULL /\ threadsShouldStop = 0 /\ cPc = "ready" /\ canDelete = 0
    /\ retVal = "none" /\ memErr = {} /\ upcalls = << >> /\ acquired = {}
    /\ monitoring = NoMonitoring /\ lent = {}
    /\ NoReaderA /\ NoReaderB

NextNew ==
    \/ New
    \/ Next

SpecNew == InitNew /\ [][NextNew]_vars

(***************************************************************************)
(* Properties                                                              *)
(***************************************************************************)
BothFlagsClear ==
    IF engine = "A" THEN dataThreadStarted = 0 /\ ackThreadStarted = 0
                    ELSE recvThreadStarted = 0 /\ sendThreadStarted = 0
Busy == IF engine = "A" THEN "0" ELSE "ARSTREAM_ERROR_BUSY"
Deleted == IF engine = "A" THEN "1" ELSE "ARSTREAM_OK"

\* C1: in both engines Delete decides to destroy exactly when both started flags
\* are clear at the moment it reads them under the mutex; it destroys the reader
\* only after that decision, and otherwise returns busy (0, ARSTREAM_ERROR_BUSY) and
\* leaves the reader, its flags, its sockets and the caller's handle as they were
C1_DeleteOnlyWhenBothClear ==
    [][/\ (cPc = "ready" /\ cPc' = "deleting") => ((canDelete' = 1) <=> BothFlagsClear)
       /\ (readerHandle # NULL /\ readerHandle' = NULL) => (canDelete = 1 /\ retVal' = Deleted)
       /\ (cPc = "deleting" /\ cPc' = "ready" /\ canDelete = 0) =>
              /\ retVal' = Busy
              /\ UNCHANGED <<readerHandle, threadsShouldStop, dataThreadStarted, ackThreadStarted,
                             recvThreadStarted, sendThreadStarted, sendSocket, recvSocket,
                             bufVars, naluVars>>]_vars

\* C1 happens: Delete has returned busy on an Engine A reader whose data worker runs
C1_BusyReturned ==
    /\ engine = "A" /\ retVal = "0" /\ cPc = "ready"
    /\ dataThreadStarted = 1 /\ readerHandle = "reader"

\* C2 as stated: Engine B's Delete succeeds only once stop has been called and the
\* receive worker has observed it
C2_DeletedOnlyAfterStop ==
    (engine = "B" /\ retVal = "ARSTREAM_OK") => (threadsShouldStop = 1 /\ shouldStop = 1)

\* C2, amended: in Engine B the receive worker clears its started flag only after it
\* has observed stop; Delete returns ARSTREAM_ERROR_BUSY when it found a started flag
\* set and succeeds when it found both clear (which needs no stop when no worker
\* runs: the send worker clears its flag without reading stop); every Delete after
\* a successful one returns ARSTREAM_ERROR_BAD_PARAMETERS
C2_BusyWhileStarted ==
    [][engine = "B" =>
        /\ (recvThreadStarted = 1 /\ recvThreadStarted' = 0) =>
               (shouldStop = 1 /\ threadsShouldStop = 1)
        /\ (cPc = "ready" /\ cPc' = "deleting") => ((canDelete' = 1) <=> BothFlagsClear)
        /\ (cPc = "deleting" /\ cPc' = "ready") =>
               (retVal' = IF canDelete = 1 THEN "ARSTREAM_OK" ELSE "ARSTREAM_ERROR_BUSY")
        /\ (freed /\ retVal' # retVal) => retVal' = "ARSTREAM_ERROR_BAD_PARAMETERS"
        /\ freed => freed']_vars

\* C2 happens: the receive worker has observed stop and ended, Delete has succeeded
\* and a second Delete has returned ARSTREAM_ERROR_BAD_PARAMETERS
C2_SecondDeleteRefused ==
    /\ engine = "B" /\ retVal = "ARSTREAM_ERROR_BAD_PARAMETERS" /\ freed
    /\ bPc = "done" /\ shouldStop = 1 /\ recvSocket = -1

\* C3 as stated: once stop has been called, every worker that has set its started
\* flag clears it (after which Delete succeeds), unless the reader is freed first
C3_StoppedWorkersEnd ==
    /\ (threadsShouldStop = 1 /\ dataThreadStarted = 1) ~> (dataThreadStarted = 0 \/ freed)
    /\ (threadsShouldStop = 1 /\ ackThreadStarted = 1) ~> (ackThreadStarted = 0 \/ freed)
    /\ (threadsShouldStop = 1 /\ recvThreadStarted = 1) ~> (recvThreadStarted = 0 \/ freed)
    /\ (threadsShouldStop = 1 /\ sendThreadStarted = 1) ~> (sendThreadStarted = 0 \/ freed)

IsComplete(u) == u.cause = "FRAME_COMPLETE"

\* C4 as stated: FRAME_COMPLETE is never upcalled for a frame number it has been
\* upcalled for before
C4_CompleteAtMostOnce ==
    \A i \in DOMAIN upcalls : IsComplete(upcalls[i]) => ~upcalls[i].again

\* the fragments that cover bytes [0, size)
FragmentsOf(size) == 0 .. (((size + FRAGMENT_SIZE - 1) \div FRAGMENT_SIZE) - 1)

\* C5 as stated: at a FRAME_COMPLETE upcall of size S the buffer holds, each in its
\* slot, the payloads of fragments 0 .. ceil(S / FRAGMENT_SIZE) - 1 of the frame
C5_CompleteFrameIsWhole ==
    \A i \in DOMAIN upcalls :
        IsComplete(upcalls[i]) => FragmentsOf(upcalls[i].size) \subseteq upcalls[i].content

\* C6 as stated: missedFrames of a FRAME_COMPLETE for frame F is (F - previousF - 1)
\* modulo 2^16, a value in 0 .. 65535
C6_MissedFramesModulo ==
    \A i \in DOMAIN upcalls :
        IsComplete(upcalls[i]) =>
            upcalls[i].missed = (upcalls[i].frameNumber - upcalls[i].previousFNum - 1) % (UINT16_MAX + 1)

\* C7 as stated: missedFrames is 0 for a frame that directly follows the one
\* completed before (the first frame 0 after UINT16_MAX and the wrap 65535 -> 0
\* included), and 1 when exactly one frame was lost in between
C7_MissedFramesOfNextFrame ==
    \A i \in DOMAIN upcalls :
        IsComplete(upcalls[i]) =>
            /\ (upcalls[i].frameNumber = (upcalls[i].previousFNum + 1) % (UINT16_MAX + 1))
                   => upcalls[i].missed = 0
            /\ (upcalls[i].frameNumber = (upcalls[i].previousFNum + 2) % (UINT16_MAX + 1))
                   => upcalls[i].missed = 1

\* C8 as stated: in every state the size of the reassembly buffer is at most its capacity
C8_SizeWithinCapacity ==
    /\ engine = "A" => currentFrameSize <= currentFrameBufferSize
    /\ engine = "B" => currentNaluSize <= currentNaluBufferSize

\* C9 as stated: no write of either engine ends past the capacity of the buffer it writes
C9_NoWritePastCapacity ==
    "writePastCapacity" \notin memErr

\* C10 as stated: every upcall is made while the worker holds no mutex of the reader
C10_UpcallsHoldNoMutex ==
    \A i \in DOMAIN upcalls : upcalls[i].held = {}

\* C10, amended: Engine A's FRAME_COMPLETE upcall is made while the data worker
\* holds ackMutex and no other mutex; every other upcall of either engine is made
\* while the worker holds no mutex of the reader
C10_OnlyCompleteHoldsAckMutex ==
    \A i \in DOMAIN upcalls :
        upcalls[i].held = IF IsComplete(upcalls[i]) THEN {"ackMutex"} ELSE {}

\* C10 happens: FRAME_COMPLETE has been upcalled, and the data worker held ackMutex
C10_CompleteUnderAckMutex ==
    \E i \in DOMAIN upcalls : IsComplete(upcalls[i]) /\ "ackMutex" \in upcalls[i].held

C12_SnapshotOfReceivedFragments ==
    [][(kPc = "loop" /\ kPc' = "send") =>
           /\ ackMutex = "free"
           /\ sendPacket' = ackPacket
           /\ sendPacket'.bits \subseteq received]_vars

\* C13: when the answer to FRAME_TOO_SMALL is smaller than the bytes accumulated the
\* data worker of Engine A sets the skip state, and it recovers at the next frame
\* boundary: a fragment of another frame is read and clears the skip state
C13_SkipStateRecovers ==
    (engine = "A" /\ skipCurrentFrame = 1) ~> (skipCurrentFrame = 0)

\* C14: after a callback of the consumer has answered with a null buffer (capacity
\* 0), neither engine reads from or writes to the null pointer with a length that
\* is not zero, whatever packets and answers follow
C14_NullBufferNeverAccessed ==
    "nullDeref" \notin memErr

\* the receive worker of Engine B has run one turn of its loop on datagram d
Received(d) ==
    /\ engine = "B" /\ bPc = "loop" /\ shouldStop = 0
    /\ monitoringIndex' # monitoringIndex
    /\ monitoringPoint'[monitoringIndex'].seqNum = d.seqNum
    /\ monitoringPoint'[monitoringIndex'].bytes = d.recvSize
    /\ \E tick \in ticks : RecvTurn(d, tick)
\* d is in order: its signed sequence delta to previousSeqNum is positive
InOrder(d) == SeqNumDelta(d.seqNum, previousSeqNum) > 0
\* d is a fragment of an FU-A sequence received in order: its start, or the
\* fragment that follows the one before while the unit is pending
FuaFragment(d) ==
    /\ d.nalType = "FUA" /\ d.recvSize - DataHeader2Size >= 2
    /\ InOrder(d)
    /\ d.startBit = 1 \/ (fuPending # 0 /\ SeqNumDelta(d.seqNum, previousSeqNum) = 1)
\* the NAL unit after fragment d is appended to what the buffer holds: the start
\* code if enabled and the restored header byte before the body of a start
FuaExpected(d) ==
    [bytes |-> (IF d.startBit = 1
                  THEN (IF insertStartCodes # 0 THEN << Piece("startCode", -1) >> ELSE << >>)
                       \o << Piece("nalHeader", d.seqNum) >>
                  ELSE naluContent)
               \o (IF d.recvSize - DataHeader2Size > 2 THEN << Piece("fuBody", d.seqNum) >> ELSE << >>),
     size |-> (IF d.startBit = 1
                 THEN (IF insertStartCodes # 0 THEN STARTCODE_LENGTH ELSE 0) + 1
                 ELSE currentNaluSize)
              + (d.recvSize - DataHeader2Size - 2)]
\* fragment d has been appended: the reader holds the unit, or, on the end of the
\* sequence, has delivered it by NALU_COMPLETE
FuaAppended(d) ==
    IF d.endBit = 1
      THEN \E i \in DOMAIN upcalls' :
              /\ upcalls'[i].cause = "NALU_COMPLETE"
              /\ upcalls'[i].content = FuaExpected(d).bytes
              /\ upcalls'[i].size = FuaExpected(d).size
      ELSE /\ naluContent' = FuaExpected(d).bytes
           /\ currentNaluSize' = FuaExpected(d).size
           /\ fuPending' # 0
\* every NALU_BUFFER_TOO_SMALL of the turn was answered with the capacity asked for
Granted(d) ==
    \A i \in DOMAIN upcalls' :
        upcalls'[i].cause = "NALU_BUFFER_TOO_SMALL" =>
            /\ upcalls'[i].answer.cap > 0
            /\ upcalls'[i].answer.cap >= FuaExpected(d).size

C16_OutOfOrderPacketDiscarded ==
    [][\A d \in feed :
          (Received(d) /\ ~InOrder(d)) =>
              /\ UNCHANGED <<previousSeqNum, previousTimestamp, gapsInSeqNum, fuPending,
                             currentAuSize, naluVars>>
              /\ upcalls' = << >>]_vars

\* C17 (as stated): after any Engine B packet with the marker bit set gapsInSeqNum
\* and the size of the access unit are zero, and the next packet begins a new
\* access unit: startSeqNum becomes its sequence number
C17_MarkerResetsAccessUnit ==
    [][\A d \in feed :
          Received(d) =>
              /\ (d.markerBit = 1) => (gapsInSeqNum' = 0 /\ currentAuSize' = 0)
              /\ (monitoringCount > 0 /\ monitoringPoint[monitoringIndex].markerBit = 1)
                     => startSeqNum' = d.seqNum]_vars

\* C17 (amended): after a packet with the marker bit set that is in order (signed
\* delta > 0) gapsInSeqNum and the size of the access unit are zero; they stay so
\* until the next packet, and a packet received while the size of the access unit
\* is zero begins a new access unit: startSeqNum becomes its sequence number
C17_InOrderMarkerResetsAccessUnit ==
    [][/\ \A d \in feed :
             Received(d) =>
                 /\ (InOrder(d) /\ d.markerBit = 1) => (gapsInSeqNum' = 0 /\ currentAuSize' = 0)
                 /\ (currentAuSize = 0) => startSeqNum' = d.seqNum
       /\ (engine = "B" /\ monitoringIndex' = monitoringIndex)
             => UNCHANGED <<gapsInSeqNum, currentAuSize, startSeqNum>>]_vars

\* C17 happens: the last NAL unit of an access unit of several packets has been
\* delivered, and the counts are zero
C17_AccessUnitEnded ==
    /\ engine = "B" /\ bPc = "loop"
    /\ \E i \in DOMAIN upcalls :
          /\ upcalls[i].cause = "NALU_COMPLETE"
          /\ upcalls[i].isLastNaluOfAu = 1 /\ upcalls[i].isFirstNaluOfAu = 0
          /\ upcalls[i].missed # 0
    /\ gapsInSeqNum = 0 /\ currentAuSize = 0

\* d is a single NAL unit (type neither 24 nor 28, payload of 1 byte or more) that
\* is in order and fits the buffer with its start code
SingleNalThatFits(d) ==
    /\ d.nalType = "NAL" /\ d.recvSize - DataHeader2Size >= 1
    /\ InOrder(d)
    /\ (IF insertStartCodes # 0 THEN STARTCODE_LENGTH ELSE 0) + (d.recvSize - DataHeader2Size)
           <= currentNaluBufferSize
\* gapsInSeqNum when the unit of packet d is delivered: the gaps of the access unit
\* so far, none when d is the first packet or begins a new timestamp
GapsAt(d) ==
    IF previousTimestamp # 0 /\ CurrentTimestamp(d.timestamp) # previousTimestamp THEN 0
    ELSE IF previousSeqNum = -1 THEN gapsInSeqNum
    ELSE gapsInSeqNum + SeqNumDelta(d.seqNum, previousSeqNum) - 1

\* C18: every in-order single NAL unit packet of Engine B that fits the buffer
\* yields exactly one upcall, NALU_COMPLETE, whose data is the start code (if
\* enabled) and the payload verbatim, with isLast the marker bit, isFirst
\* (startSeqNum == currentSeqNum) and the current gapsInSeqNum; for the first packet
\* received, with the marker bit set: isFirst 1, isLast 1, gapsInSeqNum 0
C18_SingleNalDelivered ==
    [][\A d \in feed :
          (Received(d) /\ SingleNalThatFits(d)) =>
              /\ Len(upcalls') = 1
              /\ upcalls'[1].cause = "NALU_COMPLETE"
              /\ upcalls'[1].content =
                     (IF insertStartCodes # 0 THEN << Piece("startCode", -1) >> ELSE << >>)
                     \o << Piece("nal", d.seqNum) >>
              /\ upcalls'[1].size = (IF insertStartCodes # 0 THEN STARTCODE_LENGTH ELSE 0)
                                    + (d.recvSize - DataHeader2Size)
              /\ upcalls'[1].auTimestamp = ((d.timestamp * 1000) + 45) \div 90
              /\ upcalls'[1].isLastNaluOfAu = d.markerBit
              /\ upcalls'[1].isFirstNaluOfAu = (IF startSeqNum' = d.seqNum THEN 1 ELSE 0)
              /\ upcalls'[1].missed = GapsAt(d)
              /\ (previousSeqNum = -1 /\ monitoringCount = 0 /\ d.markerBit = 1) =>
                     /\ upcalls'[1].isFirstNaluOfAu = 1
                     /\ upcalls'[1].isLastNaluOfAu = 1
                     /\ upcalls'[1].missed = 0]_vars

\* C18 happens: the first packet received is a single NAL unit with the marker bit
\* set, and it has been delivered with its start code
C18_FirstUnitDelivered ==
    /\ engine = "B" /\ monitoringCount = 1 /\ insertStartCodes # 0
    /\ monitoringPoint[monitoringIndex].markerBit = 1
    /\ Len(upcalls) = 1
    /\ upcalls[1].cause = "NALU_COMPLETE"
    /\ upcalls[1].size = STARTCODE_LENGTH + 2
    /\ upcalls[1].isFirstNaluOfAu = 1 /\ upcalls[1].isLastNaluOfAu = 1 /\ upcalls[1].missed = 0

\* a call of GetMonitoring with a reader, an interval that is not 0 and the
\* outputs of out has returned, at least one packet being recorded
Queried(timeIntervalUs, out) ==
    /\ engine = "B" /\ ~freed /\ monitoringCount > 0
    /\ GetMonitoringOf(timeIntervalUs, out)
\* the slots of the ring that hold a recorded packet
RecordedSlots == {WalkSlot(n) : n \in 1 .. monitoringCount}

\* C19: when every recorded packet has the same byte count s, getMonitoring returns
\* meanPacketSize = s and packetSizeStdDev = 0, for every interval asked for and
\* every fill level of the ring
C19_EqualSizesHaveNoDeviation ==
    [][\A timeIntervalUs \in Intervals \ {0} :
          \A s \in {monitoringPoint[slot].bytes : slot \in RecordedSlots} :
              (/\ Queried(timeIntervalUs, Outputs)
               /\ \A slot \in RecordedSlots : monitoringPoint[slot].bytes = s)
              => /\ monitoring'.ret = "ARSTREAM_OK"
                 /\ monitoring'.meanPacketSize = s
                 /\ monitoring'.packetSizeStdDev = 0]_vars

\* the number of points a walk back from the newest point covers: the first n at
\* which the interval asked for is covered, or every recorded point
CoveringPoints(timeIntervalUs) ==
    LET startTime == monitoringPoint[monitoringIndex].recvTimestamp
        Covers(n) == startTime - monitoringPoint[WalkSlot(n)].recvTimestamp >= timeIntervalUs
    IN  CHOOSE n \in 1 .. monitoringCount :
            /\ n = monitoringCount \/ Covers(n)
            /\ \A m \in 1 .. (n - 1) : ~Covers(m)
\* the sequence numbers skipped from the point walked n-th to the one walked before
\* it (the newer of the two), mod 2^16, summed over the first n points walked
RECURSIVE SkippedSeqNums(_)
SkippedSeqNums(n) ==
    IF n <= 1 THEN 0
    ELSE SkippedSeqNums(n - 1)
         + ((monitoringPoint[WalkSlot(n - 1)].seqNum - monitoringPoint[WalkSlot(n)].seqNum - 1)
            % (UINT16_MAX + 1))

\* C20: getMonitoring reports packetsReceived = the number of ring points walked (at
\* most count, stopping once the interval asked for is covered) and packetsMissed =
\* the number of sequence numbers skipped between consecutive walked points, mod 2^16
C20_PacketsReceivedAndMissed ==
    [][\A timeIntervalUs \in Intervals \ {0} :
          Queried(timeIntervalUs, Outputs)
          => /\ monitoring'.ret = "ARSTREAM_OK"
             /\ monitoring'.packetsReceived = CoveringPoints(timeIntervalUs)
             /\ monitoring'.packetsMissed = SkippedSeqNums(CoveringPoints(timeIntervalUs))]_vars

\* C21: getMonitoring returns ARSTREAM_ERROR_BAD_PARAMETERS and writes through none
\* of its output pointers when the reader is NULL, when timeIntervalUs is 0 and when
\* no packet has been recorded yet; it holds no mutex when it returns, and it takes
\* monitoringMutex only in the last case
C21_BadParametersWriteNothing ==
    [][\A timeIntervalUs \in Intervals, out \in Requests :
          (/\ GetMonitoringOf(timeIntervalUs, out)
           /\ freed \/ timeIntervalUs = 0 \/ monitoringCount = 0)
          => /\ monitoring'.ret = "ARSTREAM_ERROR_BAD_PARAMETERS"
             /\ monitoring'.written = {}
             /\ \A name \in Outputs : monitoring'[name] = 0
             /\ monitoring'.held = {}
             /\ (acquired' # acquired) => (~freed /\ timeIntervalUs # 0)
             /\ UNCHANGED <<callerVars, monitoringVars>>]_vars

\* C21 happens: a query of a reader that has recorded no packet, with an interval
\* that is not 0, has taken monitoringMutex and returned ARSTREAM_ERROR_BAD_PARAMETERS
C21_EmptyRingRefused ==
    /\ engine = "B" /\ ~freed /\ monitoringCount = 0
    /\ monitoring.ret = "ARSTREAM_ERROR_BAD_PARAMETERS" /\ monitoring.timeIntervalUs # 0
    /\ monitoring.written = {} /\ monitoring.held = {}
    /\ Acquire("monitor", "monitoringMutex", {}) \in acquired

\* the reader New has returned: stop flag clear, both started flags clear, size 0
FreshReader ==
    /\ readerHandle' = "reader" /\ threadsShouldStop' = 0
    /\ IF engine = "A"
         THEN dataThreadStarted' = 0 /\ ackThreadStarted' = 0 /\ currentFrameSize' = 0
         ELSE recvThreadStarted' = 0 /\ sendThreadStarted' = 0 /\ currentNaluSize' = 0

\* C22: construction validates its mandatory parameters.  Engine A's New returns
\* NULL when manager, callback or frame buffer is NULL or the buffer size is 0;
\* Engine B's New returns NULL with ARSTREAM_ERROR_BAD_PARAMETERS when config is
\* NULL, recvPort <= 0, recvTimeoutSec <= 0, the NALU callback or buffer is NULL
\* or the buffer size is 0; otherwise, when no allocation fails, it returns a
\* reader with the stop flag clear, both started flags clear and current size 0,
\* and Engine B reports ARSTREAM_OK
C22_ConstructionValidatesParameters ==
    [][/\ \A p \in ParamsA :
             NewA(p) =>
                 IF p.manager = NULL \/ p.callback = NULL \/ p.frameBuffer = NULL
                    \/ p.frameBufferSize = 0
                   THEN readerHandle' = NULL
                   ELSE p.alloc => FreshReader
       /\ \A p \in ParamsB :
             NewB(p) =>
                 IF \/ p.config.ptr = NULL
                    \/ p.config.recvPort <= 0 \/ p.config.recvTimeoutSec <= 0
                    \/ p.config.naluCallback = NULL
                    \/ p.naluBuffer = NULL \/ p.naluBufferSize = 0
                   THEN readerHandle' = NULL /\ retVal' = "ARSTREAM_ERROR_BAD_PARAMETERS"
                   ELSE p.alloc => (FreshReader /\ retVal' = "ARSTREAM_OK")]_vars

\* C22 happens: after an Engine B reader was deleted, New has returned another
\* reader and ARSTREAM_OK, and the receive worker runs on it
C22_ReaderConstructedAgain ==
    /\ engine = "B" /\ readerHandle = "reader" /\ retVal = "ARSTREAM_OK"
    /\ threadsShouldStop = 0 /\ recvThreadStarted = 1
    /\ \E q \in acquired : q.thread = "caller"

\* the mutex of the reader that guards threadsShouldStop
StopMutex == IF engine = "A" THEN "threadsStatusMutex" ELSE "streamMutex"
\* everything but the stop flag and the record of the acquisitions
AllButStopFlag ==
    <<envVars, monitoring, readerHandle, cPc, canDelete, retVal, memErr, upcalls, varsA, varsB>>

\* C23: stop is idempotent and irreversible.  The should-stop flag changes only to
\* set, in a step of the caller that holds the thread-state / stream mutex and
\* changes nothing else; a stop on a reader already stopped leaves every variable
\* as it is; no step clears the flag; and a worker that finds the flag set when it
\* starts leaves its loop without reading or processing a datagram
C23_StopIdempotentIrreversible ==
    [][/\ threadsShouldStop' # threadsShouldStop =>
              /\ threadsShouldStop' = 1
              /\ Acquire("caller", StopMutex, {}) \in acquired'
              /\ acquired' \subseteq acquired \cup {Acquire("caller", StopMutex, {})}
              /\ UNCHANGED AllButStopFlag
       /\ ((StopReaderA \/ StopReaderB) /\ ~freed) => threadsShouldStop' = 1
       /\ ((StopReaderA \/ StopReaderB) /\ threadsShouldStop = 1) =>
              UNCHANGED <<threadsShouldStop, AllButStopFlag>>
       /\ (aPc = "loop" /\ aPc' # aPc /\ threadsShouldStop = 1 /\ ~freed) =>
              /\ aPc' = "cancel"
              /\ UNCHANGED <<header, ackPacket, bufVars, received, acquired>>
       /\ (kPc = "loop" /\ kPc' # kPc /\ threadsShouldStop = 1 /\ ~freed) =>
              (kPc' = "done" /\ UNCHANGED <<sendPacket, acquired>>)
       /\ (bPc = "start" /\ bPc' = "loop" /\ threadsShouldStop = 1) => shouldStop' = 1
       /\ (bPc = "loop" /\ shouldStop = 1 /\ ~freed) =>
              /\ IF bPc' = "cancel" THEN upcalls' = << >> ELSE bPc' = "loop" /\ UNCHANGED upcalls
              /\ UNCHANGED <<naluVars, monitoringVars, recvLocals, firstTimestamp>>]_vars

\* C23 happens: the reader of Engine A was stopped before its data worker tested
\* the flag for the first time: the worker has left its loop for the CANCEL upcall
\* and has never taken ackMutex to record a fragment
C23_StoppedBeforeFirstRead ==
    /\ engine = "A" /\ threadsShouldStop = 1 /\ aPc = "cancel" /\ dataThreadStarted = 1
    /\ Acquire("caller", "threadsStatusMutex", {}) \in acquired
    /\ \A q \in acquired : q.thread # "data"
    /\ received = {} /\ header = NoDatagram

\* x mod 2^16 read as a signed 16-bit value, in -32768 .. 32767
Signed16(x) ==
    LET m == x % (UINT16_MAX + 1)
    IN  IF m >= 32768 THEN m - (UINT16_MAX + 1) ELSE m

\* C24: for every Engine B packet after the first, the delta used to accept or
\* reject it is (currentSeq - previousSeq) mod 2^16 read as a signed 16-bit value,
\* for all pairs of sequence numbers, and the packet is processed (it becomes the
\* previous packet) iff that value is > 0
C24_SignedSequenceDelta ==
    [][\A d \in feed :
          (Received(d) /\ previousSeqNum # -1) =>
              /\ SeqNumDelta(d.seqNum, previousSeqNum) = Signed16(d.seqNum - previousSeqNum)
              /\ IF Signed16(d.seqNum - previousSeqNum) > 0
                   THEN /\ previousSeqNum' = d.seqNum
                        /\ previousTimestamp' = CurrentTimestamp(d.timestamp)
                   ELSE /\ upcalls' = << >>
                        /\ UNCHANGED <<previousSeqNum, previousTimestamp, fuPending, naluVars,
                                       currentAuSize>>]_vars

\* C25: in both engines the reader reads and writes only a buffer the consumer has
\* on loan to it (the one given at construction or returned by the latest
\* TOO_SMALL or COMPLETE upcall): no access of either worker touches a buffer after
\* the COPY_COMPLETE, COMPLETE or CANCEL upcall that gave it back, and until the
\* CANCEL upcall the buffer the reader holds is one that is on loan.
C25_OnlyLentBufferAccessed ==
    /\ "useAfterRelease" \notin memErr
    /\ (engine = "A" /\ aPc \in {"loop", "sizeLoop", "copy", "complete", "cancel"})
          => currentFrameBuffer \in lent \cup {NULL}
    /\ (engine = "B" /\ bPc \in {"loop", "cancel"})
          => currentNaluBuffer \in lent \cup {NULL}
\* C25 witness: the data worker has written a fragment into the second buffer after
\* the first one was given back.
C25_WritesIntoSecondBuffer ==
    /\ engine = "A" /\ lent = {"buffer2"} /\ currentFrameBuffer = "buffer2"
    /\ content # {} /\ "useAfterRelease" \notin memErr

\* C26 as stated: in Engine A every FRAME_TOO_SMALL upcall is followed at once, with
\* no upcall in between, by a COPY_COMPLETE upcall for the same old buffer, whether
\* or not the answer was large enough for the bytes accumulated, and the reader then
\* holds the buffer and the capacity the FRAME_TOO_SMALL upcall returned
C26_TooSmallThenCopyComplete ==
    [][DataTooSmall =>
          /\ Len(upcalls') = 2
          /\ upcalls'[1].cause = "FRAME_TOO_SMALL"
          /\ upcalls'[1].buf = currentFrameBuffer
          /\ upcalls'[2].cause = "COPY_COMPLETE"
          /\ upcalls'[2].buf = currentFrameBuffer
          /\ currentFrameBuffer' = Returned(currentFrameBuffer, upcalls'[1].answer)
          /\ currentFrameBufferSize' = upcalls'[1].answer.cap]_vars

\* C27 as stated: in Engine B a packet whose write needs size + needed bytes, more
\* than the capacity, makes the worker upcall NALU_BUFFER_TOO_SMALL first, for the
\* current buffer and proposing size + needed. If the capacity returned is at least
\* size + needed the worker copies the accumulated prefix, upcalls
\* NALU_COPY_COMPLETE for the old buffer and performs the write (size advances by
\* needed; NALU_COMPLETE, when the unit ends, is for the buffer returned).
\* Otherwise it makes no other upcall and the size is not advanced. In both cases
\* the buffer and the capacity returned are adopted.
C27_TooSmallBeforeWrite ==
    [][\A d \in feed, tick \in ticks :
          LET payloadSize == d.recvSize - DataHeader2Size
              fua == d.nalType = "FUA"
              needed == IF fua THEN (payloadSize - 2)
                                    + (IF d.startBit = 1 THEN StartCodeLength + 1 ELSE 0)
                        ELSE payloadSize + StartCodeLength
              size == IF fua /\ d.startBit = 0 THEN currentNaluSize ELSE 0
              writes == /\ SeqNumDelta(d.seqNum, previousSeqNum) > 0
                        /\ payloadSize >= 1
                        /\ d.nalType \in {"FUA", "NAL"}
                        /\ fua => (payloadSize >= 2 /\ (d.startBit = 1 \/ fuPending = 1))
          IN  (/\ engine = "B" /\ bPc = "loop" /\ shouldStop = 0
               /\ writes
               /\ size + needed > currentNaluBufferSize
               /\ RecvTurn(d, tick))
              => /\ Len(upcalls') >= 1
                 /\ upcalls'[1].cause = "NALU_BUFFER_TOO_SMALL"
                 /\ upcalls'[1].buf = currentNaluBuffer
                 /\ upcalls'[1].proposed = size + needed
                 /\ LET a == upcalls'[1].answer
                        next == Returned(currentNaluBuffer, a)
                    IN  IF a.cap >= size + needed
                          THEN /\ Len(upcalls') >= 2
                               /\ upcalls'[2].cause = "NALU_COPY_COMPLETE"
                               /\ upcalls'[2].buf = currentNaluBuffer
                               /\ currentNaluSize' = size + needed
                               /\ Len(upcalls') = 2 =>
                                     /\ currentNaluBuffer' = next
                                     /\ currentNaluBufferSize' = a.cap
                                     /\ size > 0 => SubSeq(naluContent', 1, Len(naluContent)) = naluContent
                               /\ Len(upcalls') > 2 =>
                                     /\ Len(upcalls') = 3
                                     /\ upcalls'[3].cause = "NALU_COMPLETE"
                                     /\ upcalls'[3].buf = next
                                     /\ upcalls'[3].size = size + needed
                          ELSE /\ Len(upcalls') = 1
                               /\ currentNaluSize' = size
                               /\ currentNaluBuffer' = next
                               /\ currentNaluBufferSize' = a.cap]_vars

\* the data worker of Engine A and the receive worker of Engine B are in their loop,
\* or have left it and not yet made the CANCEL upcall
InLoopA == engine = "A" /\ aPc \in {"loop", "sizeLoop", "complete", "cancel"}
InLoopB == engine = "B" /\ bPc \in {"loop", "cancel"}

\* C28 as stated: a data or receive worker that entered its loop upcalls CANCEL
\* exactly once, after it left the loop and before it clears its started flag, with
\* the buffer in progress, and makes no upcall afterwards; so when Delete has freed
\* the reader no such worker is still in its loop or short of its CANCEL upcall
C28_CancelBeforeDelete ==
    /\ [][/\ (aPc = "cancel" /\ aPc' # aPc) =>
                 /\ aPc' = "clear" /\ dataThreadStarted' = 1 /\ Len(upcalls') = 1
                 /\ upcalls'[1].cause = "CANCEL"
                 /\ upcalls'[1].buf = currentFrameBuffer
                 /\ upcalls'[1].size = currentFrameSize
          /\ (bPc = "cancel" /\ bPc' # bPc) =>
                 /\ bPc' = "clear" /\ recvThreadStarted' = 1 /\ Len(upcalls') = 1
                 /\ upcalls'[1].cause = "CANCEL"
                 /\ upcalls'[1].buf = currentNaluBuffer
          /\ (aPc # "cancel" /\ bPc # "cancel" /\ upcalls' # upcalls) =>
                 \A i \in DOMAIN upcalls' : upcalls'[i].cause # "CANCEL"
          /\ (dataThreadStarted = 1 /\ dataThreadStarted' = 0) => (aPc = "clear" /\ aPc' = "done")
          /\ (recvThreadStarted = 1 /\ recvThreadStarted' = 0) => (bPc = "clear" /\ bPc' = "done")
          /\ (aPc \in {"clear", "done"}) =>
                 /\ aPc' \in {aPc, "done"}
                 /\ upcalls' = upcalls \/ upcalls' = << >>
          /\ (bPc \in {"clear", "done"}) =>
                 /\ bPc' \in {bPc, "done"}
                 /\ upcalls' = upcalls \/ upcalls' = << >>]_vars
    /\ [](freed => (~InLoopA /\ ~InLoopB))

\* C29: when the data worker of Engine A reads a fragment whose frame number differs
\* from ackPacket.numFrame (a newer or an older one), then within one critical
\* section on ackMutex it zeroes currentFrameSize, stores the frame number, resets
\* the flags, clears skipCurrentFrame and then sets the flag of the fragment; when
\* the frame number is equal it only sets the flag, and the size, numFrame,
\* skipCurrentFrame and the other flags are unchanged
C29_NewFrameResetsReassembly ==
    [][(engine = "A" /\ aPc = "loop" /\ aPc' = "sizeLoop") =>
          /\ ackMutex = "free" /\ ackMutex' = "free"
          /\ Acquire("data", "ackMutex", {}) \in acquired'
          /\ IF header'.frameNumber # ackPacket.numFrame
               THEN /\ currentFrameSize' = 0
                    /\ skipCurrentFrame' = 0
                    /\ ackPacket' = [numFrame |-> header'.frameNumber,
                                     bits |-> {header'.fragmentNumber}]
               ELSE /\ ackPacket'.numFrame = ackPacket.numFrame
                    /\ ackPacket'.bits = ackPacket.bits \cup {header'.fragmentNumber}
                    /\ UNCHANGED <<currentFrameSize, skipCurrentFrame>>
          /\ UNCHANGED <<currentFrameBuffer, currentFrameBufferSize, previousFNum, sendPacket>>]_vars
\* C29 happens: after frame 1 was completed a fragment of frame 0 has been read, and
\* reassembly has started again on frame 0 with the flag of that fragment alone
C29_OlderFrameRestarts ==
    /\ engine = "A" /\ aPc = "sizeLoop" /\ previousFNum = 1
    /\ header.frameNumber = 0 /\ header.fragmentNumber = 1
    /\ ackPacket = [numFrame |-> 0, bits |-> {1}]
    /\ currentFrameSize = 0 /\ skipCurrentFrame = 0

\* C30 as stated: a frame of Engine A all of whose fragments are received (in any
\* order, with duplicates) before a fragment of another frame number, into a buffer
\* large enough, is delivered by FRAME_COMPLETE exactly once, when its last missing
\* fragment arrives, whatever its frame number in 0 .. 65535 and also when it is the
\* first frame of a run. Here: the worker goes on to FRAME_COMPLETE after it copied a
\* fragment only if every fragment of the frame has been received since the frame
\* number changed, and it does so if moreover the frame was never delivered before.
C30_WholeFrameCompletedOnce ==
    [][(/\ engine = "A" /\ aPc = "sizeLoop" /\ aPc' \in {"loop", "complete"}
        /\ skipCurrentFrame = 0 /\ ~BufferTooSmall)
       => LET whole == (0 .. (header.fragmentsPerFrame - 1)) \subseteq received
          IN  /\ aPc' = "complete" => whole
              /\ (whole /\ header.frameNumber \notin completedFrames) => aPc' = "complete"]_vars

\* the pieces of bytes that come from packets: all but start codes and bytes
\* nothing was copied to
PacketPieces(bytes) == {bytes[i] : i \in {j \in DOMAIN bytes : bytes[j].seq # -1}}

\* C31: in Engine B an in-order FU-A start, aggregation packet or single NAL unit
\* received while an FU-A is pending abandons the pending unit: fuPending is cleared
\* (set again by the start), no NALU_COMPLETE is upcalled for the pending unit and
\* none of its bytes is in the unit the reader goes on with or delivers. The
\* aggregation packet itself makes no upcall and leaves the buffer, its capacity,
\* its bytes and the size unchanged. An FU-A fragment without start bit received
\* while no FU-A is pending makes no write and no upcall, so that the bytes of an
\* abandoned unit are never delivered later.
C31_PendingFuaAbandoned ==
    [][\A d \in feed, tick \in ticks :
          LET payloadSize == d.recvSize - DataHeader2Size
              old == PacketPieces(naluContent)
          IN  (/\ engine = "B" /\ bPc = "loop" /\ shouldStop = 0
               /\ SeqNumDelta(d.seqNum, previousSeqNum) > 0
               /\ payloadSize >= 1
               /\ RecvTurn(d, tick))
              => /\ (d.nalType = "STAPA") =>
                        /\ fuPending' = 0
                        /\ upcalls' = << >>
                        /\ UNCHANGED naluVars
                 /\ (d.nalType = "NAL") =>
                        /\ fuPending' = 0
                        /\ PacketPieces(naluContent') \subseteq {Piece("nal", d.seqNum)}
                        /\ \A i \in DOMAIN upcalls' :
                              PacketPieces(upcalls'[i].content) \cap old # {} =>
                                  upcalls'[i].cause = "NALU_BUFFER_TOO_SMALL"
                 /\ (d.nalType = "FUA" /\ payloadSize >= 2 /\ d.startBit = 1) =>
                        /\ fuPending' = IF d.endBit = 1 THEN 0 ELSE 1
                        /\ PacketPieces(naluContent')
                              \subseteq {Piece("nalHeader", d.seqNum), Piece("fuBody", d.seqNum)}
                        /\ \A i \in DOMAIN upcalls' :
                              PacketPieces(upcalls'[i].content) \cap old # {} =>
                                  upcalls'[i].cause = "NALU_BUFFER_TOO_SMALL"
                 /\ (d.nalType = "FUA" /\ d.startBit = 0 /\ fuPending = 0) =>
                        /\ fuPending' = 0
                        /\ upcalls' = << >>
                        /\ UNCHANGED naluVars]_vars
\* C31 happens: an aggregation packet has been received after the start of an FU-A;
\* the unit is no longer pending, its bytes are still in the buffer and nothing
\* was upcalled
C31_AggregationAbandonsUnit ==
    /\ engine = "B" /\ bPc = "loop" /\ fuPending = 0 /\ upcalls = << >>
    /\ previousSeqNum = 1
    /\ monitoringPoint[monitoringIndex].bytes = DataHeader2Size + 2
    /\ Piece("nalHeader", 0) \in PacketPieces(naluContent)
    /\ currentNaluSize > 0

(***************************************************************************)
(* C32: a failed socket setup in the Engine B receive worker               *)
(***************************************************************************)

\* C32: when ARSTREAM_Reader2_Bind fails the receive worker returns at once: the
\* step leaves recvThreadStarted at 0, recvSocket at -1 and makes no upcall; from
\* then on the worker takes no step, the flag stays clear and no upcall (not even
\* CANCEL) is made, and a Delete that reads the flags while the send worker is not
\* started decides to destroy the reader
C32_BindFailureLeavesNoTrace ==
    [][/\ (engine = "B" /\ bPc = "entry" /\ bPc' = "done") =>
              /\ recvThreadStarted = 0 /\ recvThreadStarted' = 0
              /\ recvSocket' = -1
              /\ upcalls = << >> /\ upcalls' = << >>
       /\ (engine = "B" /\ bPc = "done" /\ shouldStop = 0) =>
              /\ bPc' = "done" /\ shouldStop' = 0
              /\ recvThreadStarted' = 0
              /\ recvSocket' = -1
              /\ upcalls' = << >>
              /\ (cPc = "ready" /\ cPc' = "deleting" /\ sendThreadStarted = 0) => canDelete' = 1]_vars

\* the bind failed, so the worker returned without entering its loop, and the
\* reader was then deleted
C32_DeletedAfterBindFailure ==
    /\ engine = "B" /\ bPc = "done" /\ shouldStop = 0 /\ recvThreadStarted = 0
    /\ recvSocket = -1 /\ upcalls = << >>
    /\ freed /\ retVal = "ARSTREAM_OK"

(***************************************************************************)
(* C33: the isFirstNaluOfAu argument of NALU_COMPLETE                      *)
(***************************************************************************)

\* C33: isFirstNaluOfAu is 1 on the first NALU_COMPLETE upcall of every access
\* unit. A NALU_COMPLETE made on an in-order packet is the first of its access
\* unit when no byte of the unit had been written before the packet (the size of
\* the unit is 0, or the timestamp changed), or when the packet continues a
\* pending FU-A and every byte of the unit so far belongs to that FU-A.
C33_FirstNaluOfAuFlagged ==
    [][\A d \in feed :
          (Received(d) /\ InOrder(d)) =>
              LET newAu == previousTimestamp # 0
                           /\ CurrentTimestamp(d.timestamp) # previousTimestamp
                  au == IF newAu THEN 0 ELSE currentAuSize
                  first == \/ au = 0
                           \/ /\ d.nalType = "FUA" /\ d.startBit = 0 /\ fuPending # 0
                              /\ au = currentNaluSize
              IN  \A i \in DOMAIN upcalls' :
                     (upcalls'[i].cause = "NALU_COMPLETE" /\ first)
                         => upcalls'[i].isFirstNaluOfAu = 1]_vars

(***************************************************************************)
(* C34: the gapsInSeqNum argument of NALU_COMPLETE                         *)
(***************************************************************************)

\* C34: the number of missing packets passed to a NALU_COMPLETE upcall of
\* Engine B is never negative, whatever the order of the received packets
C34_GapsNeverNegative ==
    engine = "B" =>
        \A i \in DOMAIN upcalls :
            upcalls[i].cause = "NALU_COMPLETE" => upcalls[i].missed >= 0

(***************************************************************************)
(* C35: what the Engine A ack worker acknowledges                          *)
(***************************************************************************)

\* C35: the ack worker of Engine A never sends an ack whose bitmap has the bit of
\* a fragment whose payload is not in the reassembly buffer: when it sends the
\* snapshot while the data worker is between reading a fragment of the frame
\* the snapshot names and copying it (the copy may be pending, blocked by a
\* buffer that is too small, or skipped), the bit of that fragment is set only
\* if its payload is already in the buffer
C35_AckOnlyCommittedFragments ==
    [][(/\ engine = "A" /\ kPc = "send" /\ kPc' = "loop"
        /\ aPc = "sizeLoop"
        /\ header.frameNumber = sendPacket.numFrame
        /\ header.fragmentNumber \in sendPacket.bits)
       => header.fragmentNumber \in content]_vars

(***************************************************************************)
(* C36: every buffer the reader drops is released by an upcall             *)
(***************************************************************************)

\* C36: a worker never replaces its current buffer by a different one without a
\* release upcall that names the old buffer: whenever a step of the data worker
\* of Engine A or of the receive worker of Engine B changes the current buffer,
\* the upcalls of that step include a COPY_COMPLETE, a COMPLETE or a CANCEL for
\* the buffer held before
C36_ReplacedBufferReleased ==
    [][/\ (/\ engine = "A" /\ aPc \in {"sizeLoop", "complete"}
           /\ currentFrameBuffer # NULL /\ currentFrameBuffer' # currentFrameBuffer)
          => \E i \in DOMAIN upcalls' :
                /\ upcalls'[i].cause \in {"COPY_COMPLETE", "FRAME_COMPLETE", "CANCEL"}
                /\ upcalls'[i].buf = currentFrameBuffer
       /\ (/\ engine = "B" /\ bPc = "loop"
           /\ currentNaluBuffer # NULL /\ currentNaluBuffer' # currentNaluBuffer)
          => \E i \in DOMAIN upcalls' :
                /\ upcalls'[i].cause \in {"NALU_COPY_COMPLETE", "NALU_COMPLETE", "CANCEL"}
                /\ upcalls'[i].buf = currentNaluBuffer]_vars

(***************************************************************************)
(* C37: no worker outlives its reader                                      *)
(***************************************************************************)

\* C37: a reader is never destroyed while a worker spawned on it has not
\* finished: once the reader is freed every worker is either not spawned or has
\* returned (or the process has already stopped on a memory error), and no
\* worker ever accesses the freed reader
C37_NoWorkerOutlivesReader ==
    /\ freed => /\ aPc \in {"idle", "done", "crashed"}
                /\ kPc \in {"idle", "done", "crashed"}
                /\ bPc \in {"idle", "done", "crashed"}
                /\ sPc \in {"idle", "done", "crashed"}
    /\ "useAfterFree" \notin memErr

(***************************************************************************)
(* C38: the copy of the accumulated prefix into a replacement buffer       *)
(***************************************************************************)

\* C38: whenever either engine copies the accumulated prefix into a replacement
\* buffer, the number of bytes copied (the current size) does not exceed the
\* capacity of the buffer it copies from: no prefix copy reads past the end of
\* its source
C38_PrefixCopyWithinSource ==
    "readPastCapacity" \notin memErr

====
